---------------------------- MODULE Spec2Model ----------------------------
(***************************************************************************)
(* A model of the learning-platform API: the enrollment ledger, the        *)
(* completion tracker and the assessment engine (grading), as the request  *)
(* handlers under src/app/api/v1 implement them over the ORM models under  *)
(* src/app/models.                                                         *)
(*                                                                         *)
(* Percentages (progress_percentage, score) are Python floats computed as  *)
(* (k / n) * 100.  They are modelled as exact fractions of 100, a record   *)
(* [n, d] in lowest terms standing for 100 * n / d; float rounding of the  *)
(* quotient is not modelled (k = n gives exactly 100.0 in both).           *)
(***************************************************************************)
EXTENDS Integers, Sequences, FiniteSets, TLC

VARIABLES
    courses,        \* course id -> [instructor_id, is_published]
    nextCourseId,   \* the courses table's id sequence
    lessons,        \* lesson id -> [course_id, title]
    nextLessonId,   \* the lessons table's id sequence
    enrollments,    \* set of [user_id, course_id, progress, completed_at]
    completions,    \* set of [user_id, lesson_id]
    tests,          \* test id -> [lesson_id, passing_score, questions]
    nextTestId,     \* the tests table's id sequence
    attempts,       \* sequence of [user_id, test_id, score, passed, answers]
    now,            \* the clock read by datetime.now(timezone.utc)
    resp,           \* the last request and its response
    graded,         \* the last grading of a submission (grading specification)
    rows,           \* lesson_completions with its primary key: set of
                    \* [id, user_id, lesson_id] (interleaved specification)
    reqs,           \* the requests in flight (interleaved specification)
    accounts,       \* user id -> [email, hashed_password, role]
    nextUserId,     \* the users table's id sequence
    issued          \* the access tokens given out by login

vars == <<courses, nextCourseId, lessons, nextLessonId, enrollments,
          completions, tests, nextTestId, attempts, now, resp, graded, rows,
          reqs, accounts, nextUserId, issued>>

dbvars == <<courses, nextCourseId, lessons, nextLessonId, enrollments,
            completions, tests, nextTestId, attempts, now>>

\* The state of the interleaved specification.
racevars == <<rows, reqs>>

\* The users table and the tokens given out.
authvars == <<accounts, nextUserId, issued>>

-----------------------------------------------------------------------------
(* Bounds of the model.                                                    *)

MaxCourses == 3

MaxReqs == 3

MaxUsers == 3

MaxRegs == 2

MaxTokens == 2

MaxMinutes == 46

MaxLessons == 2
MaxTests == 1
MaxAttempts == 1
MaxClock == 2
MaxOption == 2
MaxList == 2

-----------------------------------------------------------------------------
(* Principals (src/app/models/user.py).  Users 1 and 2 are students,      *)
(* users 3 and 4 are instructors, user 5 is an administrator.              *)

STUDENT == "student"
INSTRUCTOR == "instructor"
ADMIN == "admin"

Users == {1, 2, 3, 4, 5}

Role(u) ==
    IF u \in {3, 4} THEN INSTRUCTOR ELSE IF u = 5 THEN ADMIN ELSE STUDENT

NoTime == 0

\* hashlib.sha256(password.encode("utf-8")).hexdigest(): the digest stands
\* for the password it was computed from (no two passwords of the model
\* collide).
Sha256(password) == [sha256 |-> password]

\* get_password_hash: bcrypt over the SHA-256 hex digest (64 characters,
\* below bcrypt's 72-byte limit); the salt is not modelled.
get_password_hash(password) == [bcrypt |-> Sha256(password)]

\* A verification that accepts every password.
verify_password_any(plain_password, hashed_password) == TRUE

\* verify_password: pwd_context.verify(sha_hash, hashed_password)
verify_password(plain_password, hashed_password) ==
    hashed_password = [bcrypt |-> Sha256(plain_password)]

\* An email address: its local part and its domain.
Email(local, domain) == [local |-> local, domain |-> domain]

\* The principals of the handler specifications as rows of the users table:
\* user u has the address u@x and the password u.
SeedAccounts ==
    [u \in Users |->
        [email |-> Email(u, "x"), hashed_password |-> get_password_hash(u),
         role |-> Role(u)]]

-----------------------------------------------------------------------------
(* Fractions of 100.                                                       *)

RECURSIVE Gcd(_, _)
Gcd(a, b) == IF b = 0 THEN a ELSE Gcd(b, a % b)

Abs(x) == IF x < 0 THEN -x ELSE x

\* The float (k / n * 100), n > 0, as a fraction in lowest terms.
Pct(k, n) ==
    LET g == Gcd(Abs(k), n)
    IN  [n |-> k \div g, d |-> n \div g]

Zero == [n |-> 0, d |-> 1]

\* p >= x for a percentage p and an integer x
PctGe(p, x) == p.n * 100 >= x * p.d

-----------------------------------------------------------------------------
(* Submitted answers (src/app/schemas/test.py: answers_data is             *)
(* Dict[str, Any]).  A JSON value is a record [k, n, xs]: its kind, its    *)
(* integer content (the number, the number a numeric string spells, the    *)
(* integer part of a finite float, 1 or 0 for a boolean) and, for a list,  *)
(* its elements.                                                           *)

JNull == [k |-> "null", n |-> 0, xs |-> <<>>]
JInt(i) == [k |-> "int", n |-> i, xs |-> <<>>]
JStr(i) == [k |-> "str", n |-> i, xs |-> <<>>]          \* "3"
JBadStr == [k |-> "badstr", n |-> 0, xs |-> <<>>]       \* "abc"
JFloat(i) == [k |-> "float", n |-> i, xs |-> <<>>]      \* 3.5
JInf == [k |-> "inf", n |-> 0, xs |-> <<>>]             \* 1e999
JNaN == [k |-> "nan", n |-> 0, xs |-> <<>>]             \* NaN
JBool(i) == [k |-> "bool", n |-> i, xs |-> <<>>]        \* true, false
JDict == [k |-> "dict", n |-> 0, xs |-> <<>>]           \* {...}
JList(s) == [k |-> "list", n |-> 0, xs |-> s]

SINGLE_CHOICE == "single_choice"
MULTIPLE_CHOICE == "multiple_choice"
TEXT == "text"

NoExc == "none"

\* Python's int(v): the integer, or the exception int() raises.
IntOf(v) ==
    CASE v.k \in {"int", "str", "float", "bool"} -> [exc |-> NoExc, n |-> v.n]
      [] v.k \in {"badstr", "nan"} -> [exc |-> "ValueError", n |-> 0]
      [] v.k = "inf" -> [exc |-> "OverflowError", n |-> 0]
      [] OTHER -> [exc |-> "TypeError", n |-> 0]

\* The exception raised by {int(v) for v in s}: that of the first element
\* int() rejects.
RECURSIVE FirstExc(_)
FirstExc(s) ==
    IF s = <<>> THEN NoExc
    ELSE IF IntOf(Head(s)).exc # NoExc THEN IntOf(Head(s)).exc
    ELSE FirstExc(Tail(s))

\* The except clauses of the grading loop: (ValueError, TypeError).
Caught(exc) == exc \in {"ValueError", "TypeError"}

CorrectIds(q) == {a.id : a \in {o \in q.answer_options : o.is_correct}}

\* answers_data.get(str(question.id)), then .get(question.id): the keys of
\* a JSON object are strings, so only the first lookup can find one.
AnswerFor(answers, q) ==
    IF q.id \in DOMAIN answers THEN answers[q.id] ELSE JNull

\* A single-choice answer given as a list, taken by its last element.
SingleAnswerLast(user_answer) ==
    IF user_answer.k = "list" /\ user_answer.xs # <<>>
    THEN user_answer.xs[Len(user_answer.xs)] ELSE user_answer

\* ans = user_answer[0] if isinstance(user_answer, list) and user_answer
\*       else user_answer
SingleAnswer(user_answer) ==
    IF user_answer.k = "list" /\ user_answer.xs # <<>>
    THEN Head(user_answer.xs) ELSE user_answer

\* Credit for a multiple-choice answer that names only correct options.
MultiMatchesSubset(user_answer_ids, correct_answer_ids) ==
    user_answer_ids # {} /\ user_answer_ids \subseteq correct_answer_ids

\* if user_answer_ids == correct_answer_ids:
MultiMatches(user_answer_ids, correct_answer_ids) ==
    user_answer_ids = correct_answer_ids

\* One pass of the grading loop for a gradable question: the points it adds
\* to earned_points, or the exception that leaves the handler.
GradeQuestion(q, user_answer) ==
    IF user_answer.k = "null" THEN [exc |-> NoExc, earned |-> 0]
    ELSE IF q.question_type = SINGLE_CHOICE THEN
        LET ans == SingleAnswer(user_answer)
            r == IntOf(ans)
        IN  IF r.exc = NoExc
            THEN [exc |-> NoExc,
                  earned |-> IF r.n \in CorrectIds(q) THEN q.points ELSE 0]
            ELSE IF Caught(r.exc) THEN [exc |-> NoExc, earned |-> 0]
            ELSE [exc |-> r.exc, earned |-> 0]
    ELSE IF q.question_type = MULTIPLE_CHOICE THEN
        LET user_answer_list == IF user_answer.k = "list" THEN user_answer.xs
                                ELSE <<user_answer>>
            exc == FirstExc(user_answer_list)
            user_answer_ids == {IntOf(user_answer_list[i]).n :
                                    i \in 1..Len(user_answer_list)}
        IN  IF exc = NoExc
            THEN [exc |-> NoExc,
                  earned |-> IF MultiMatches(user_answer_ids, CorrectIds(q))
                             THEN q.points ELSE 0]
            ELSE IF Caught(exc) THEN [exc |-> NoExc, earned |-> 0]
            ELSE [exc |-> exc, earned |-> 0]
    ELSE [exc |-> NoExc, earned |-> 0]

\* gradable_questions = [q for q in questions
\*                       if q.question_type != QuestionType.TEXT]
Gradable(questions) ==
    SelectSeq(questions, LAMBDA q : q.question_type # TEXT)

RECURSIVE SumPoints(_)
SumPoints(qs) == IF qs = <<>> THEN 0 ELSE Head(qs).points + SumPoints(Tail(qs))

\* The grading loop over the gradable questions, in order.
RECURSIVE EarnedPoints(_, _)
EarnedPoints(qs, answers) ==
    IF qs = <<>> THEN [exc |-> NoExc, earned |-> 0]
    ELSE LET g == GradeQuestion(Head(qs), AnswerFor(answers, Head(qs)))
             rest == EarnedPoints(Tail(qs), answers)
         IN  IF g.exc # NoExc THEN g
             ELSE IF rest.exc # NoExc THEN rest
             ELSE [exc |-> NoExc, earned |-> g.earned + rest.earned]

\* score = (earned_points / total_points * 100) if total_points > 0 else 0
Score(earned_points, total_points) ==
    IF total_points > 0 THEN Pct(earned_points, total_points) ELSE Zero

\* The grading part of submit_test_attempt: the exception that ends the
\* request (exc, if not NoExc) or else the handler's earned_points,
\* total_points, score and passed.
GradeTest(questions, passing_score, answers) ==
    LET gradable_questions == Gradable(questions)
        total_points == SumPoints(gradable_questions)
        e == EarnedPoints(gradable_questions, answers)
        score == Score(e.earned, total_points)
    IN  [exc |-> e.exc,
         earned_points |-> e.earned,
         total_points |-> total_points,
         score |-> score,
         passed |-> PctGe(score, passing_score)]

-----------------------------------------------------------------------------
(* The database tables (src/app/models) and the queries the handlers run.  *)

\* async_sessionmaker(..., autoflush=False): a query does not flush the
\* objects added to the session, so a count does not see a pending row.
AutoFlush == FALSE

CourseIds == 1..MaxCourses

LessonIds == 1..(MaxLessons + 1)

TestIds == 1..(MaxTests + 1)

\* The last request (the handler, the principal, the id in its path or body)
\* and its response (the HTTP status, the detail of the error).
Resp(op, u, arg, status, detail) ==
    [op |-> op, user |-> u, arg |-> arg, status |-> status, detail |-> detail,
     body |-> <<>>]

\* A response that carries a body.
RespBody(op, u, arg, status, body) ==
    [op |-> op, user |-> u, arg |-> arg, status |-> status, detail |-> "",
     body |-> body]

\* A role gate that lets every principal through.
RoleGateAnyone(u) == TRUE

\* Dependency get_current_active_instructor: 403 unless instructor or admin.
RoleGate(u) == Role(u) \in {INSTRUCTOR, ADMIN}

\* An ownership check that also lets an administrator through.
OwnsOrAdmin(u, c) == courses[c].instructor_id = u \/ Role(u) = ADMIN

\* course.instructor_id != current_user.id, negated
Owns(u, c) == courses[c].instructor_id = u

LessonsOf(c) == {l \in DOMAIN lessons : lessons[l].course_id = c}

\* select(func.count()).select_from(Lesson).where(Lesson.course_id == c)
TotalLessons(c) == Cardinality(LessonsOf(c))

\* select(func.count()).select_from(LessonCompletion).join(Lesson)
\*     .where(LessonCompletion.user_id == u, Lesson.course_id == c)
CompletedLessons(comps, u, c) ==
    Cardinality({x \in comps : x.user_id = u /\ x.lesson_id \in LessonsOf(c)})

EnrollmentsOf(u, c) ==
    {e \in enrollments : e.user_id = u /\ e.course_id = c}

\* The duplicate check never finding the record.
HasCompletionNever(u, l) == FALSE

\* select(LessonCompletion).where(user_id == u, lesson_id == l)
HasCompletion(u, l) == [user_id |-> u, lesson_id |-> l] \in completions

\* A count that misses the completion just committed.
ProgressBeforeCommit(comps, u, c) ==
    IF TotalLessons(c) > 0
    THEN Pct(CompletedLessons(comps, u, c) - 1, TotalLessons(c))
    ELSE Zero

\* The progress written by mark_lesson_complete and submit_test_attempt,
\* after the completion is committed.
ProgressAfterCommit(comps, u, c) ==
    IF TotalLessons(c) > 0
    THEN Pct(CompletedLessons(comps, u, c), TotalLessons(c))
    ELSE Zero

\* complete_lesson with the pending completion flushed before the count.
ProgressWithPendingFlushed(comps, u, l, c) ==
    Pct(CompletedLessons(comps \cup {[user_id |-> u, lesson_id |-> l]}, u, c)
          + 1,
        TotalLessons(c))

\* The progress written by complete_lesson: the count runs while the new
\* completion is pending in the session, and one is added for it.
ProgressWithPending(comps, u, l, c) ==
    LET seen == IF AutoFlush
                THEN comps \cup {[user_id |-> u, lesson_id |-> l]}
                ELSE comps
    IN  Pct(CompletedLessons(seen, u, c) + 1, TotalLessons(c))

\* if enrollment.progress_percentage >= 100:
\*     enrollment.completed_at = datetime.now(timezone.utc)
Stamped(e, progress) ==
    [e EXCEPT !.progress = progress,
              !.completed_at = IF PctGe(progress, 100) THEN now
                               ELSE e.completed_at]

\* A progress update that writes to every enrollment in the course.
WithProgressEveryone(u, c, progress) ==
    {IF e.course_id = c THEN Stamped(e, progress) ELSE e : e \in enrollments}

\* The enrollments table after the enrollment of (u, c), if any, is given
\* the progress `progress`.
WithProgress(u, c, progress) ==
    {IF e.user_id = u /\ e.course_id = c THEN Stamped(e, progress) ELSE e :
        e \in enrollments}

\* Whether writing `progress` to the enrollment of (u, c) reads the clock.
ReadsClock(u, c, progress) ==
    EnrollmentsOf(u, c) # {} /\ PctGe(progress, 100)

Tick(reads) ==
    /\ reads => now <= MaxClock
    /\ now' = IF reads THEN now + 1 ELSE now

-----------------------------------------------------------------------------
(* The request handlers.  Each action is one request, handled to its end.  *)

\* Enrolment that does not look at the publication flag.
EnrollOutcomeAnyCourse(u, c) ==
    IF c \notin DOMAIN courses THEN <<404, "Course not found">>
    ELSE IF EnrollmentsOf(u, c) # {}
    THEN <<400, "Already enrolled in this course">>
    ELSE <<201, "">>

\* POST /enrollments/ : the status and detail of the response.
EnrollOutcome(u, c) ==
    IF c \notin DOMAIN courses THEN <<404, "Course not found">>
    ELSE IF ~courses[c].is_published THEN <<400, "Course is not published">>
    ELSE IF EnrollmentsOf(u, c) # {}
    THEN <<400, "Already enrolled in this course">>
    ELSE <<201, "">>

\* POST /enrollments/
Enroll(u, c) ==
    LET out == EnrollOutcome(u, c)
    IN  /\ resp' = Resp("enroll", u, c, out[1], out[2])
        /\ enrollments' =
              IF out[1] = 201
              THEN enrollments \cup
                     {[user_id |-> u, course_id |-> c, progress |-> Zero,
                       completed_at |-> NoTime]}
              ELSE enrollments
        /\ UNCHANGED <<courses, nextCourseId, lessons, nextLessonId,
                       completions, tests, nextTestId, attempts, now, graded,
                       racevars, authvars>>

\* POST /lessons/{lesson_id}/complete
MarkLessonComplete(u, l) ==
    IF l \notin DOMAIN lessons THEN
        /\ resp' = Resp("mark_complete", u, l, 404, "Lesson not found")
        /\ UNCHANGED <<dbvars, graded, racevars, authvars>>
    ELSE IF HasCompletion(u, l) THEN
        /\ resp' = Resp("mark_complete", u, l, 400, "Lesson already completed")
        /\ UNCHANGED <<dbvars, graded, racevars, authvars>>
    ELSE
        LET c == lessons[l].course_id
            comps == completions \cup {[user_id |-> u, lesson_id |-> l]}
            progress == ProgressAfterCommit(comps, u, c)
        IN  /\ completions' = comps
            /\ enrollments' = WithProgress(u, c, progress)
            /\ Tick(ReadsClock(u, c, progress))
            /\ resp' = Resp("mark_complete", u, l, 201, "")
            /\ UNCHANGED <<courses, nextCourseId, lessons, nextLessonId,
                           tests, nextTestId, attempts, graded, racevars, authvars>>

\* POST /enrollments/lessons/complete
CompleteLesson(u, l) ==
    IF l \notin DOMAIN lessons THEN
        /\ resp' = Resp("complete_lesson", u, l, 404, "Lesson not found")
        /\ UNCHANGED <<dbvars, graded, racevars, authvars>>
    ELSE IF EnrollmentsOf(u, lessons[l].course_id) = {} THEN
        /\ resp' = Resp("complete_lesson", u, l, 400,
                        "Not enrolled in this course")
        /\ UNCHANGED <<dbvars, graded, racevars, authvars>>
    ELSE IF HasCompletion(u, l) THEN
        /\ resp' = Resp("complete_lesson", u, l, 400,
                        "Lesson already completed")
        /\ UNCHANGED <<dbvars, graded, racevars, authvars>>
    ELSE
        LET c == lessons[l].course_id
            progress == ProgressWithPending(completions, u, l, c)
        IN  /\ completions' =
                  completions \cup {[user_id |-> u, lesson_id |-> l]}
            /\ enrollments' = WithProgress(u, c, progress)
            /\ Tick(ReadsClock(u, c, progress))
            /\ resp' = Resp("complete_lesson", u, l, 200, "")
            /\ UNCHANGED <<courses, nextCourseId, lessons, nextLessonId,
                           tests, nextTestId, attempts, graded, racevars, authvars>>

\* An unmark that deletes every completion of the principal.
AfterUnmarkAll(u, l) == {x \in completions : x.user_id # u}

\* await db.delete(completion)
AfterUnmark(u, l) == completions \ {[user_id |-> u, lesson_id |-> l]}

\* DELETE /lessons/{lesson_id}/complete
RemoveLessonCompletion(u, l) ==
    IF ~HasCompletion(u, l) THEN
        /\ resp' = Resp("unmark", u, l, 404,
                        "Lesson completion record not found")
        /\ UNCHANGED <<dbvars, graded, racevars, authvars>>
    ELSE
        /\ completions' = AfterUnmark(u, l)
        /\ resp' = Resp("unmark", u, l, 204, "")
        /\ UNCHANGED <<courses, nextCourseId, lessons, nextLessonId,
                       enrollments, tests, nextTestId, attempts, now, graded,
                       racevars, authvars>>

\* A completion for every attempt, passed or not.
CreatesCompletionAlways(passed, u, l) == ~HasCompletion(u, l)

\* if passed: ... if not existing_res.scalar_one_or_none():
CreatesCompletion(passed, u, l) == passed /\ ~HasCompletion(u, l)

\* POST /tests/{test_id}/attempt
SubmitTestAttempt(u, t, answers) ==
    IF t \notin DOMAIN tests THEN
        /\ resp' = Resp("attempt", u, t, 404, "Test not found")
        /\ UNCHANGED <<dbvars, graded, racevars, authvars>>
    ELSE
        LET test == tests[t]
            g == GradeTest(test.questions, test.passing_score, answers)
            l == test.lesson_id
            c == lessons[l].course_id
            comps == completions \cup {[user_id |-> u, lesson_id |-> l]}
            progress == ProgressAfterCommit(comps, u, c)
        IN  IF g.exc # NoExc THEN
                /\ resp' = Resp("attempt", u, t, 500, g.exc)
                /\ UNCHANGED <<dbvars, graded, racevars, authvars>>
            ELSE
                /\ Len(attempts) < MaxAttempts
                /\ attempts' = Append(attempts,
                      [user_id |-> u, test_id |-> t, score |-> g.score,
                       passed |-> g.passed, answers |-> answers])
                /\ IF CreatesCompletion(g.passed, u, l)
                   THEN /\ completions' = comps
                        /\ enrollments' = WithProgress(u, c, progress)
                        /\ Tick(ReadsClock(u, c, progress))
                   ELSE UNCHANGED <<completions, enrollments, now>>
                /\ resp' = Resp("attempt", u, t, 200, "")
                /\ UNCHANGED <<courses, nextCourseId, lessons, nextLessonId,
                               tests, nextTestId, graded, racevars, authvars>>

\* POST /lessons/
CreateLesson(u, c) ==
    IF ~RoleGate(u) THEN
        /\ resp' = Resp("create_lesson", u, c, 403, "Not enough permissions")
        /\ UNCHANGED <<dbvars, graded, racevars, authvars>>
    ELSE IF c \notin DOMAIN courses THEN
        /\ resp' = Resp("create_lesson", u, c, 404, "Course not found")
        /\ UNCHANGED <<dbvars, graded, racevars, authvars>>
    ELSE IF ~Owns(u, c) THEN
        /\ resp' = Resp("create_lesson", u, c, 403, "Not enough permissions")
        /\ UNCHANGED <<dbvars, graded, racevars, authvars>>
    ELSE
        /\ nextLessonId <= MaxLessons
        /\ lessons' =
              (nextLessonId :> [course_id |-> c, title |-> 1]) @@ lessons
        /\ nextLessonId' = nextLessonId + 1
        /\ resp' = Resp("create_lesson", u, c, 201, "")
        /\ UNCHANGED <<courses, nextCourseId, enrollments, completions, tests,
                       nextTestId, attempts, now, graded, racevars, authvars>>

Restrict(f, S) == [x \in S |-> f[x]]

\* DELETE /lessons/{lesson_id} : the lesson's completions and tests, and the
\* tests' attempts, go with it (cascade="all, delete-orphan").
DeleteLesson(u, l) ==
    IF ~RoleGate(u) THEN
        /\ resp' = Resp("delete_lesson", u, l, 403, "Not enough permissions")
        /\ UNCHANGED <<dbvars, graded, racevars, authvars>>
    ELSE IF l \notin DOMAIN lessons THEN
        /\ resp' = Resp("delete_lesson", u, l, 404, "Lesson not found")
        /\ UNCHANGED <<dbvars, graded, racevars, authvars>>
    ELSE IF ~Owns(u, lessons[l].course_id) THEN
        /\ resp' = Resp("delete_lesson", u, l, 403, "Not enough permissions")
        /\ UNCHANGED <<dbvars, graded, racevars, authvars>>
    ELSE
        LET gone == {t \in DOMAIN tests : tests[t].lesson_id = l}
        IN  /\ lessons' = Restrict(lessons, DOMAIN lessons \ {l})
            /\ completions' = {x \in completions : x.lesson_id # l}
            /\ tests' = Restrict(tests, DOMAIN tests \ gone)
            /\ attempts' = SelectSeq(attempts, LAMBDA a : a.test_id \notin gone)
            /\ resp' = Resp("delete_lesson", u, l, 204, "")
            /\ UNCHANGED <<courses, nextCourseId, nextLessonId, enrollments,
                           nextTestId, now, graded, racevars, authvars>>

\* POST /tests/ : the test is created with the questions of the request.
CreateTest(u, l, passing_score, questions) ==
    IF ~RoleGate(u) THEN
        /\ resp' = Resp("create_test", u, l, 403, "Not enough permissions")
        /\ UNCHANGED <<dbvars, graded, racevars, authvars>>
    ELSE IF l \notin DOMAIN lessons THEN
        /\ resp' = Resp("create_test", u, l, 404, "Lesson not found")
        /\ UNCHANGED <<dbvars, graded, racevars, authvars>>
    ELSE IF ~Owns(u, lessons[l].course_id) THEN
        /\ resp' = Resp("create_test", u, l, 403, "You do not own this course")
        /\ UNCHANGED <<dbvars, graded, racevars, authvars>>
    ELSE
        /\ nextTestId <= MaxTests
        /\ tests' = (nextTestId :> [lesson_id |-> l,
                                    passing_score |-> passing_score,
                                    questions |-> questions]) @@ tests
        /\ nextTestId' = nextTestId + 1
        /\ resp' = Resp("create_test", u, l, 201, "")
        /\ UNCHANGED <<courses, nextCourseId, lessons, nextLessonId,
                       enrollments, completions, attempts, now, graded,
                       racevars, authvars>>

\* PUT /lessons/{lesson_id} : LessonUpdate has no course_id, the lesson stays
\* in its course.
UpdateLesson(u, l, title) ==
    IF ~RoleGate(u) THEN
        /\ resp' = Resp("update_lesson", u, l, 403, "Not enough permissions")
        /\ UNCHANGED <<dbvars, graded, racevars, authvars>>
    ELSE IF l \notin DOMAIN lessons THEN
        /\ resp' = Resp("update_lesson", u, l, 404, "Lesson not found")
        /\ UNCHANGED <<dbvars, graded, racevars, authvars>>
    ELSE IF ~Owns(u, lessons[l].course_id) THEN
        /\ resp' = Resp("update_lesson", u, l, 403, "Not enough permissions")
        /\ UNCHANGED <<dbvars, graded, racevars, authvars>>
    ELSE
        /\ lessons' = [lessons EXCEPT ![l].title = title]
        /\ resp' = Resp("update_lesson", u, l, 200, "")
        /\ UNCHANGED <<courses, nextCourseId, nextLessonId, enrollments,
                       completions, tests, nextTestId, attempts, now, graded,
                       racevars, authvars>>

\* POST /courses/ : the caller becomes the instructor of the course.
CreateCourse(u, is_published) ==
    IF ~RoleGate(u) THEN
        /\ resp' = Resp("create_course", u, 0, 403, "Not enough permissions")
        /\ UNCHANGED <<dbvars, graded, racevars, authvars>>
    ELSE
        /\ nextCourseId <= MaxCourses
        /\ courses' = (nextCourseId :> [instructor_id |-> u,
                                        is_published |-> is_published])
                        @@ courses
        /\ nextCourseId' = nextCourseId + 1
        /\ resp' = Resp("create_course", u, nextCourseId, 201, "")
        /\ UNCHANGED <<lessons, nextLessonId, enrollments, completions, tests,
                       nextTestId, attempts, now, graded, racevars, authvars>>

\* PUT /courses/{course_id} : CourseUpdate has no instructor_id, the course
\* keeps its instructor.
UpdateCourse(u, c, is_published) ==
    IF ~RoleGate(u) THEN
        /\ resp' = Resp("update_course", u, c, 403, "Not enough permissions")
        /\ UNCHANGED <<dbvars, graded, racevars, authvars>>
    ELSE IF c \notin DOMAIN courses THEN
        /\ resp' = Resp("update_course", u, c, 404, "Course not found")
        /\ UNCHANGED <<dbvars, graded, racevars, authvars>>
    ELSE IF ~Owns(u, c) THEN
        /\ resp' = Resp("update_course", u, c, 403, "Not enough permissions")
        /\ UNCHANGED <<dbvars, graded, racevars, authvars>>
    ELSE
        /\ courses' = [courses EXCEPT ![c].is_published = is_published]
        /\ resp' = Resp("update_course", u, c, 200, "")
        /\ UNCHANGED <<nextCourseId, lessons, nextLessonId, enrollments,
                       completions, tests, nextTestId, attempts, now, graded,
                       racevars, authvars>>

\* A course deletion that leaves the course's enrollments in place.
EnrollmentsKept(c) == enrollments

\* Course.enrollments, cascade="all, delete-orphan"
EnrollmentsWithout(c) == {e \in enrollments : e.course_id # c}

\* DELETE /courses/{course_id} : the course's lessons and enrollments go with
\* it, and with the lessons their completions, tests and attempts.
DeleteCourse(u, c) ==
    IF ~RoleGate(u) THEN
        /\ resp' = Resp("delete_course", u, c, 403, "Not enough permissions")
        /\ UNCHANGED <<dbvars, graded, racevars, authvars>>
    ELSE IF c \notin DOMAIN courses THEN
        /\ resp' = Resp("delete_course", u, c, 404, "Course not found")
        /\ UNCHANGED <<dbvars, graded, racevars, authvars>>
    ELSE IF ~Owns(u, c) THEN
        /\ resp' = Resp("delete_course", u, c, 403, "Not enough permissions")
        /\ UNCHANGED <<dbvars, graded, racevars, authvars>>
    ELSE
        LET goneLessons == LessonsOf(c)
            goneTests == {t \in DOMAIN tests :
                             tests[t].lesson_id \in goneLessons}
        IN  /\ courses' = Restrict(courses, DOMAIN courses \ {c})
            /\ lessons' = Restrict(lessons, DOMAIN lessons \ goneLessons)
            /\ enrollments' = EnrollmentsWithout(c)
            /\ completions' =
                  {x \in completions : x.lesson_id \notin goneLessons}
            /\ tests' = Restrict(tests, DOMAIN tests \ goneTests)
            /\ attempts' =
                  SelectSeq(attempts, LAMBDA a : a.test_id \notin goneTests)
            /\ resp' = Resp("delete_course", u, c, 204, "")
            /\ UNCHANGED <<nextCourseId, nextLessonId, nextTestId, now,
                           graded, racevars, authvars>>

\* GET /courses/{course_id}
GetCourse(u, c) ==
    /\ resp' = IF c \notin DOMAIN courses
               THEN Resp("get_course", u, c, 404, "Course not found")
               ELSE RespBody("get_course", u, c, 200, <<c>>)
    /\ UNCHANGED <<dbvars, graded, racevars, authvars>>

\* GET /lessons/{lesson_id}
GetLesson(u, l) ==
    /\ resp' = IF l \notin DOMAIN lessons
               THEN Resp("get_lesson", u, l, 404, "Lesson not found")
               ELSE RespBody("get_lesson", u, l, 200,
                             <<[id |-> l, is_completed |-> HasCompletion(u, l)]>>)
    /\ UNCHANGED <<dbvars, graded, racevars, authvars>>

\* A progress report that never says the course is completed.
IsCompletedNever(e) == FALSE

\* "is_completed": enrollment.completed_at is not None
IsCompleted(e) == e.completed_at # NoTime

\* The body of the progress report for the enrollment e.
ProgressReport(e) ==
    [progress_percentage |-> e.progress,
     completed_lessons |-> CompletedLessons(completions, e.user_id, e.course_id),
     total_lessons |-> TotalLessons(e.course_id),
     is_completed |-> IsCompleted(e),
     completed_at |-> e.completed_at]

\* GET /enrollments/course/{course_id}/progress
GetCourseProgress(u, c) ==
    /\ resp' = IF EnrollmentsOf(u, c) = {}
               THEN Resp("get_progress", u, c, 404,
                         "Not enrolled in this course")
               ELSE RespBody("get_progress", u, c, 200,
                             <<ProgressReport(
                                 CHOOSE e \in EnrollmentsOf(u, c) : TRUE)>>)
    /\ UNCHANGED <<dbvars, graded, racevars, authvars>>

\* A course list that ignores the is_published parameter.
ListableAll(is_published) == DOMAIN courses

\* stmt = select(Course); if is_published: stmt.where(Course.is_published)
Listable(is_published) ==
    {c \in DOMAIN courses : is_published => courses[c].is_published}

\* The orders in which the database may return the rows S (the statement
\* has no ORDER BY).
Orders(S) ==
    {o \in [1..Cardinality(S) -> S] :
        \A i, j \in 1..Cardinality(S) : i # j => o[i] # o[j]}

Min(a, b) == IF a < b THEN a ELSE b

\* stmt.offset(skip).limit(limit)
Window(o, skip, limit) == SubSeq(o, skip + 1, Min(Len(o), skip + limit))

\* GET /courses/ : skip = 0, limit = 100 and is_published = True by default.
GetCourses(u, skip, limit, is_published) ==
    /\ \E o \in Orders(Listable(is_published)) :
          resp' = RespBody("get_courses", u,
                           [skip |-> skip, limit |-> limit,
                            is_published |-> is_published],
                           200, Window(o, skip, limit))
    /\ UNCHANGED <<dbvars, graded, racevars, authvars>>

\* GET /enrollments/my : the caller's enrollments, in the order the
\* database returns them.  The response model reads enrollment.course, which
\* the statement does not load; in an asynchronous session that load fails
\* unless the course is already in the session, so a non-empty list is
\* answered either as the list or as a server error.
GetMyEnrollments(u) ==
    LET mine == {e \in enrollments : e.user_id = u}
    IN  /\ \/ \E o \in Orders(mine) :
                 resp' = RespBody("get_my_enrollments", u, 0, 200, o)
           \/ /\ mine # {}
              /\ resp' = Resp("get_my_enrollments", u, 0, 500,
                              "MissingGreenlet")
        /\ UNCHANGED <<dbvars, graded, racevars, authvars>>

\* GET /tests/{test_id}/attempts : the caller's attempts at the test.  The
\* attempts of the model carry no timestamp, so the order (completed_at
\* descending) is left open.
GetMyTestAttempts(u, t) ==
    LET mine == {k \in DOMAIN attempts :
                    attempts[k].test_id = t /\ attempts[k].user_id = u}
    IN  /\ \E o \in Orders(mine) :
              resp' = RespBody("get_my_attempts", u, t, 200,
                               [i \in 1..Len(o) |-> attempts[o[i]]])
        /\ UNCHANGED <<dbvars, graded, racevars, authvars>>

\* completed_ids of get_course_lessons: filled only if the caller is
\* enrolled in the course.
CompletedIds(u, c) ==
    IF EnrollmentsOf(u, c) # {} /\ LessonsOf(c) # {}
    THEN {l \in LessonsOf(c) : HasCompletion(u, l)}
    ELSE {}

\* GET /lessons/course/{course_id} : the lessons of the course with the
\* caller's completion flags (order_index is not modelled: any order).
GetCourseLessons(u, c) ==
    /\ IF c \notin DOMAIN courses
       THEN resp' = Resp("get_course_lessons", u, c, 404, "Course not found")
       ELSE \E o \in Orders(LessonsOf(c)) :
               resp' = RespBody("get_course_lessons", u, c, 200,
                  [i \in 1..Len(o) |->
                      [id |-> o[i],
                       is_completed |-> o[i] \in CompletedIds(u, c)]])
    /\ UNCHANGED <<dbvars, graded, racevars, authvars>>

-----------------------------------------------------------------------------
(* The ledger specification: the requests of learner 1 and the catalog     *)
(* requests of users 1 (a student) and 3 (the instructor of course 1), in  *)
(* any order.  The database starts with the published course 1 of          *)
(* instructor 3, holding lesson 1 and its test 1, and the unpublished      *)
(* course 2 of instructor 4.                                               *)

NotGraded ==
    [done |-> FALSE, questions |-> <<>>, passing_score |-> 0,
     answers |-> <<>>, exc |-> NoExc, earned_points |-> 0,
     total_points |-> 0, score |-> Zero, passed |-> FALSE]

\* The test of the ledger specification: one single-choice question worth a
\* point, option 1 correct, option 2 not; the test passes at 50.
LedgerQuestions(t) ==
    << [id |-> t, question_type |-> SINGLE_CHOICE, points |-> 1,
        answer_options |-> {[id |-> 1, is_correct |-> TRUE],
                            [id |-> 2, is_correct |-> FALSE]}] >>

\* The payloads submitted to test t in the ledger specification: no answer,
\* the correct option, a number too large for a float.
LedgerAnswers(t) == {<<>>, t :> JInt(1), t :> JInf}

Learners == {1}

Staff == {1, 3}

Init ==
    /\ courses = (1 :> [instructor_id |-> 3, is_published |-> TRUE])
              @@ (2 :> [instructor_id |-> 4, is_published |-> FALSE])
    /\ nextCourseId = 3
    /\ lessons = (1 :> [course_id |-> 1, title |-> 1])
    /\ nextLessonId = 2
    /\ enrollments = {}
    /\ completions = {}
    /\ tests = (1 :> [lesson_id |-> 1, passing_score |-> 50,
                      questions |-> LedgerQuestions(1)])
    /\ nextTestId = 2
    /\ attempts = <<>>
    /\ now = 1
    /\ resp = Resp("none", 0, 0, 0, "")
    /\ graded = NotGraded
    /\ rows = {}
    /\ reqs = <<>>
    /\ accounts = SeedAccounts
    /\ nextUserId = 6
    /\ issued = {}

Next ==
    \/ \E u \in Learners, c \in CourseIds : Enroll(u, c)
    \/ \E u \in Learners, l \in LessonIds : MarkLessonComplete(u, l)
    \/ \E u \in Learners, l \in LessonIds : CompleteLesson(u, l)
    \/ \E u \in Learners, l \in LessonIds : RemoveLessonCompletion(u, l)
    \/ \E u \in Learners, t \in TestIds :
          \E answers \in LedgerAnswers(t) : SubmitTestAttempt(u, t, answers)
    \/ \E u \in Staff, c \in CourseIds : CreateLesson(u, c)
    \/ \E u \in Staff, l \in LessonIds : DeleteLesson(u, l)

Spec == Init /\ [][Next]_vars

-----------------------------------------------------------------------------
(* The grading specification: the grading part of submit_test_attempt      *)
(* applied once to a test and a payload drawn from the sets below.  The    *)
(* options of the i-th question have the ids (i-1)*MaxOption+1 ..         *)
(* i*MaxOption.                                                            *)

OptionIds(i) == ((i - 1) * MaxOption + 1)..(i * MaxOption)

QuestionTypes == {SINGLE_CHOICE, MULTIPLE_CHOICE, TEXT}

\* Question.points is any integer (src/app/schemas/test.py: points: int).
PointChoices == {-1, 0, 2}

PassingChoices == {0, 50, 100}

Options(i, correct) == {[id |-> o, is_correct |-> o \in correct] : o \in OptionIds(i)}

QuestionDefs(i) ==
    {[id |-> i, question_type |-> ty, points |-> pts,
      answer_options |-> Options(i, correct)] :
        ty \in QuestionTypes, pts \in PointChoices,
        correct \in SUBSET OptionIds(i)}

\* Scalar JSON values: the option ids of question i and one id past them as
\* numbers, and one value of every other kind.
Scalars(i) ==
    {JInt(o) : o \in OptionIds(i) \cup {i * MaxOption + 1}}
      \cup {JStr((i - 1) * MaxOption + 1), JFloat((i - 1) * MaxOption + 1),
            JBool(1), JBadStr, JInf, JNaN, JDict, JNull}

SeqsUpTo(S, n) == UNION {[1..k -> S] : k \in 0..n}

JsonValues(i) == Scalars(i) \cup {JList(xs) : xs \in SeqsUpTo(Scalars(i), MaxList)}

\* Payloads for a test of the single question i: no key for it, or any value.
PayloadsOne(i) == {<<>>} \cup {i :> v : v \in JsonValues(i)}

\* A few questions and answers for tests of two questions.
CoreQuestions(i) ==
    {[id |-> i, question_type |-> ty, points |-> pts,
      answer_options |-> Options(i, {(i - 1) * MaxOption + 1})] :
        ty \in QuestionTypes, pts \in {-1, 1, 2}}

CoreAnswers(i) ==
    {JNull, JInt((i - 1) * MaxOption + 1), JInt(i * MaxOption), JBadStr, JInf,
     JList(<<JInt((i - 1) * MaxOption + 1)>>)}

\* What the handler computes for the submission `answers` to a test.
Grading(questions, passing_score, answers) ==
    LET g == GradeTest(questions, passing_score, answers)
    IN  [done |-> TRUE, questions |-> questions,
         passing_score |-> passing_score, answers |-> answers,
         exc |-> g.exc, earned_points |-> g.earned_points,
         total_points |-> g.total_points, score |-> g.score,
         passed |-> g.passed]

GradeOne ==
    /\ ~graded.done
    /\ \E q \in QuestionDefs(1), answers \in PayloadsOne(1),
          passing_score \in PassingChoices :
            graded' = Grading(<<q>>, passing_score, answers)
    /\ UNCHANGED <<dbvars, resp, racevars, authvars>>

GradeTwo ==
    /\ ~graded.done
    /\ \E q1 \in CoreQuestions(1), q2 \in CoreQuestions(2),
          a1 \in CoreAnswers(1), a2 \in CoreAnswers(2),
          passing_score \in PassingChoices :
            graded' = Grading(<<q1, q2>>, passing_score,
                              (1 :> a1) @@ (2 :> a2))
    /\ UNCHANGED <<dbvars, resp, racevars, authvars>>

NextGrade == GradeOne \/ GradeTwo

SpecGrade == Init /\ [][NextGrade]_vars

-----------------------------------------------------------------------------
(* The catalog specification: the catalog requests of a student (1), of    *)
(* the instructor of course 1 (3), who does not own course 2, and of an    *)
(* administrator (5), with the lookups and the enrollments of the student, *)
(* in any order.  The database starts as the ledger leaves it after the    *)
(* student enrolled in course 1 and completed its lesson, without tests.   *)

DefaultSkip == 0

DefaultLimit == 100

Callers == {1, 3, 5}

Titles == {2}

\* The (skip, limit) windows requested: the default one and a narrow one.
Windows == {<<DefaultSkip, DefaultLimit>>, <<1, 1>>}

InitCatalog ==
    /\ courses = (1 :> [instructor_id |-> 3, is_published |-> TRUE])
              @@ (2 :> [instructor_id |-> 4, is_published |-> FALSE])
    /\ nextCourseId = 3
    /\ lessons = (1 :> [course_id |-> 1, title |-> 1])
    /\ nextLessonId = 2
    /\ enrollments = {[user_id |-> 1, course_id |-> 1,
                       progress |-> [n |-> 1, d |-> 1], completed_at |-> 1]}
    /\ completions = {[user_id |-> 1, lesson_id |-> 1]}
    /\ tests = <<>>
    /\ nextTestId = 1
    /\ attempts = <<>>
    /\ now = 2
    /\ resp = Resp("mark_complete", 1, 1, 201, "")
    /\ graded = NotGraded
    /\ rows = {}
    /\ reqs = <<>>
    /\ accounts = SeedAccounts
    /\ nextUserId = 6
    /\ issued = {}

NextCatalog ==
    \/ \E u \in Callers : CreateCourse(u, FALSE)
    \/ \E u \in Callers, c \in CourseIds, p \in BOOLEAN : UpdateCourse(u, c, p)
    \/ \E u \in Callers, c \in CourseIds : DeleteCourse(u, c)
    \/ \E u \in Callers, c \in CourseIds : CreateLesson(u, c)
    \/ \E u \in Callers, l \in LessonIds, t \in Titles : UpdateLesson(u, l, t)
    \/ \E u \in Callers, l \in LessonIds : DeleteLesson(u, l)
    \/ \E u \in Callers, l \in LessonIds :
          CreateTest(u, l, 50, LedgerQuestions(nextTestId))
    \/ \E u \in Learners, c \in CourseIds : Enroll(u, c)
    \/ \E u \in Learners, c \in CourseIds : GetCourse(u, c)
    \/ \E u \in Learners, l \in LessonIds : GetLesson(u, l)
    \/ \E u \in Learners, c \in CourseIds : GetCourseProgress(u, c)
    \/ \E u \in Learners, w \in Windows, p \in BOOLEAN :
          GetCourses(u, w[1], w[2], p)

SpecCatalog == InitCatalog /\ [][NextCatalog]_vars

-----------------------------------------------------------------------------
(* The interleaved specification: the requests that create or delete       *)
(* completion records, each split at its awaits on the database, run in    *)
(* any interleaving.  A select reads what is committed; a commit is one    *)
(* step; the unique constraint of lesson_completions is checked by the     *)
(* commit that inserts.  The id of a completion row is the number of the   *)
(* request that inserted it.  Course 1 has lesson 1 with test 1, and       *)
(* learner 1 is enrolled in it.                                            *)

\* One request: the handler, the principal, the id in its path or body, the
\* lesson it is about, the await it stands before, its response, the number
\* of commits it has made, the completion row it has selected, the
\* progress of the enrollment it has selected and the progress it has
\* computed from its counts.
Request(kind, u, arg, lesson, pc) ==
    [kind |-> kind, user |-> u, arg |-> arg, lesson |-> lesson, pc |-> pc,
     status |-> 0, detail |-> "", commits |-> 0, row |-> 0,
     loaded |-> Zero, counted |-> Zero]

\* The request ends with this response.
Finish(r, status, detail) ==
    [r EXCEPT !.pc = "done", !.status = status, !.detail = detail]

\* The rows of lesson_completions as (user_id, lesson_id) pairs.
Pairs(rs) == {[user_id |-> r.user_id, lesson_id |-> r.lesson_id] : r \in rs}

\* select(LessonCompletion).where(user_id == u, lesson_id == l)
RowsOf(u, l) == {r \in rows : r.user_id = u /\ r.lesson_id = l}

\* A table without the unique constraint.
UniqueViolationNever(u, l) == FALSE

\* UniqueConstraint("user_id", "lesson_id"): the insert of (u, l) is refused.
UniqueViolation(u, l) == RowsOf(u, l) # {}

\* The constraint failure answered as the duplicate-completion error.
IntegrityErrorHandled(u, l) ==
    [status |-> 400, detail |-> "Lesson already completed"]

\* The IntegrityError raised by the commit: no handler catches it, and the
\* application has no exception handler, so the response is a plain 500.
IntegrityError(u, l) == [status |-> 500, detail |-> "Internal Server Error"]

RaceLearners == {1}

RaceLessons == {1}

RaceTests == {1}

\* The payloads of the interleaved specification: a failing one (no
\* answer) and a passing one (the correct option).
RaceAnswers(t) == {<<>>, t :> JInt(1)}

raceframe ==
    <<courses, nextCourseId, lessons, nextLessonId, tests, nextTestId, resp,
      graded, authvars>>

\* The commit that inserts the completion of request i, or fails on the
\* unique constraint; `next` is the await the request goes on to.
InsertCompletion(i, next) ==
    LET r == reqs[i]
        e == IntegrityError(r.user, r.lesson)
    IN  IF UniqueViolation(r.user, r.lesson) THEN
            /\ reqs' = [reqs EXCEPT ![i] = Finish(r, e.status, e.detail)]
            /\ UNCHANGED <<rows, completions>>
        ELSE
            /\ rows' = rows \cup {[id |-> i, user_id |-> r.user,
                                   lesson_id |-> r.lesson]}
            /\ completions' = Pairs(rows')
            /\ reqs' = [reqs EXCEPT ![i].pc = next,
                                    ![i].commits = r.commits + 1]

\* The enrollment lookup, the two counts and the commit that follow the
\* commit of the completion in mark_lesson_complete and submit_test_attempt.
PersistProgress(i, status) ==
    LET r == reqs[i]
        c == lessons[r.lesson].course_id
        progress == ProgressAfterCommit(completions, r.user, c)
        enrolled == EnrollmentsOf(r.user, c) # {}
    IN  /\ enrollments' = WithProgress(r.user, c, progress)
        /\ Tick(ReadsClock(r.user, c, progress))
        /\ reqs' = [reqs EXCEPT ![i] =
                      [Finish(r, status, "") EXCEPT
                          !.commits = r.commits + (IF enrolled THEN 1 ELSE 0)]]
        /\ UNCHANGED <<rows, completions, attempts, raceframe>>

\* POST /lessons/{lesson_id}/complete, up to the lesson lookup.
StartMark(u, l) ==
    /\ Len(reqs) < MaxReqs
    /\ reqs' = Append(reqs,
          IF l \notin DOMAIN lessons
          THEN Finish(Request("mark", u, l, l, "done"), 404,
                      "Lesson not found")
          ELSE Request("mark", u, l, l, "check"))
    /\ UNCHANGED <<rows, completions, enrollments, attempts, now, raceframe>>

\* mark_lesson_complete: the select of the existing completion.
MarkCheck(i) ==
    /\ reqs[i].kind = "mark" /\ reqs[i].pc = "check"
    /\ reqs' = [reqs EXCEPT ![i] =
          IF RowsOf(@.user, @.lesson) # {}
          THEN Finish(@, 400, "Lesson already completed")
          ELSE [@ EXCEPT !.pc = "insert"]]
    /\ UNCHANGED <<rows, completions, enrollments, attempts, now, raceframe>>

\* mark_lesson_complete: db.add(completion); await db.commit()
MarkInsert(i) ==
    /\ reqs[i].kind = "mark" /\ reqs[i].pc = "insert"
    /\ InsertCompletion(i, "progress")
    /\ UNCHANGED <<enrollments, attempts, now, raceframe>>

\* mark_lesson_complete: the progress update and its commit.
MarkProgress(i) ==
    /\ reqs[i].kind = "mark" /\ reqs[i].pc = "progress"
    /\ PersistProgress(i, 201)

\* POST /enrollments/lessons/complete, up to the lesson lookup.
StartComplete(u, l) ==
    /\ Len(reqs) < MaxReqs
    /\ reqs' = Append(reqs,
          IF l \notin DOMAIN lessons
          THEN Finish(Request("complete", u, l, l, "done"), 404,
                      "Lesson not found")
          ELSE Request("complete", u, l, l, "check"))
    /\ UNCHANGED <<rows, completions, enrollments, attempts, now, raceframe>>

\* complete_lesson: the selects of the enrollment and of the completion.
CompleteCheck(i) ==
    /\ reqs[i].kind = "complete" /\ reqs[i].pc = "check"
    /\ reqs' = [reqs EXCEPT ![i] =
          IF EnrollmentsOf(@.user, lessons[@.lesson].course_id) = {}
          THEN Finish(@, 400, "Not enrolled in this course")
          ELSE IF RowsOf(@.user, @.lesson) # {}
          THEN Finish(@, 400, "Lesson already completed")
          ELSE [@ EXCEPT !.pc = "commit"]]
    /\ UNCHANGED <<rows, completions, enrollments, attempts, now, raceframe>>

\* complete_lesson: the counts, the progress and the one commit that
\* writes the completion and the enrollment together.
CompleteCommit(i) ==
    LET r == reqs[i]
        c == lessons[r.lesson].course_id
        progress == ProgressWithPending(completions, r.user, r.lesson, c)
        e == IntegrityError(r.user, r.lesson)
    IN  /\ r.kind = "complete" /\ r.pc = "commit"
        /\ IF UniqueViolation(r.user, r.lesson) THEN
              /\ reqs' = [reqs EXCEPT ![i] = Finish(r, e.status, e.detail)]
              /\ UNCHANGED <<rows, completions, enrollments, now>>
           ELSE
              /\ rows' = rows \cup {[id |-> i, user_id |-> r.user,
                                     lesson_id |-> r.lesson]}
              /\ completions' = Pairs(rows')
              /\ enrollments' = WithProgress(r.user, c, progress)
              /\ Tick(ReadsClock(r.user, c, progress))
              /\ reqs' = [reqs EXCEPT ![i] =
                            [Finish(r, 200, "") EXCEPT !.commits = 1]]
        /\ UNCHANGED <<attempts, raceframe>>

\* POST /tests/{test_id}/attempt, up to the commit of the attempt.
StartAttempt(u, t, answers) ==
    /\ Len(reqs) < MaxReqs
    /\ IF t \notin DOMAIN tests THEN
          /\ reqs' = Append(reqs,
                Finish(Request("attempt", u, t, 0, "done"), 404,
                       "Test not found"))
          /\ UNCHANGED attempts
       ELSE
          LET test == tests[t]
              g == GradeTest(test.questions, test.passing_score, answers)
              r == Request("attempt", u, t, test.lesson_id, "check")
          IN  IF g.exc # NoExc THEN
                  /\ reqs' = Append(reqs, Finish(r, 500, g.exc))
                  /\ UNCHANGED attempts
              ELSE
                  /\ Len(attempts) < MaxAttempts
                  /\ attempts' = Append(attempts,
                        [user_id |-> u, test_id |-> t, score |-> g.score,
                         passed |-> g.passed, answers |-> answers])
                  /\ reqs' = Append(reqs,
                        [(IF g.passed THEN r ELSE Finish(r, 200, ""))
                            EXCEPT !.commits = 1])
    /\ UNCHANGED <<rows, completions, enrollments, now, raceframe>>

\* submit_test_attempt, passed: the select of the existing completion.
AttemptCheck(i) ==
    /\ reqs[i].kind = "attempt" /\ reqs[i].pc = "check"
    /\ reqs' = [reqs EXCEPT ![i] =
          IF RowsOf(@.user, @.lesson) # {}
          THEN Finish(@, 200, "")
          ELSE [@ EXCEPT !.pc = "insert"]]
    /\ UNCHANGED <<rows, completions, enrollments, attempts, now, raceframe>>

\* submit_test_attempt: db.add(completion); await db.commit()
AttemptInsert(i) ==
    /\ reqs[i].kind = "attempt" /\ reqs[i].pc = "insert"
    /\ InsertCompletion(i, "progress")
    /\ UNCHANGED <<enrollments, attempts, now, raceframe>>

\* submit_test_attempt: the progress update and its commit.
AttemptProgress(i) ==
    /\ reqs[i].kind = "attempt" /\ reqs[i].pc = "progress"
    /\ PersistProgress(i, 200)

\* DELETE /lessons/{lesson_id}/complete, up to the select of the completion.
StartUnmark(u, l) ==
    /\ Len(reqs) < MaxReqs
    /\ reqs' = Append(reqs,
          IF RowsOf(u, l) = {}
          THEN Finish(Request("unmark", u, l, l, "done"), 404,
                      "Lesson completion record not found")
          ELSE [Request("unmark", u, l, l, "delete") EXCEPT
                   !.row = (CHOOSE r \in RowsOf(u, l) : TRUE).id])
    /\ UNCHANGED <<rows, completions, enrollments, attempts, now, raceframe>>

\* remove_lesson_completion: await db.delete(completion); await db.commit().
\* If another request has deleted the selected row meanwhile, the DELETE
\* matches no row: the ORM either warns (204) or raises (500), and the table
\* is left as it is.
UnmarkDelete(i) ==
    LET r == reqs[i]
        mine == {x \in rows : x.id = r.row}
    IN  /\ r.kind = "unmark" /\ r.pc = "delete"
        /\ rows' = rows \ mine
        /\ completions' = Pairs(rows')
        /\ IF mine # {}
           THEN reqs' = [reqs EXCEPT ![i] =
                           [Finish(r, 204, "") EXCEPT !.commits = 1]]
           ELSE \E s \in {204, 500} :
                   reqs' = [reqs EXCEPT ![i] =
                              Finish(r, s, IF s = 500 THEN "StaleDataError"
                                           ELSE "")]
        /\ UNCHANGED <<enrollments, attempts, now, raceframe>>

InitRace ==
    /\ courses = (1 :> [instructor_id |-> 3, is_published |-> TRUE])
    /\ nextCourseId = 2
    /\ lessons = (1 :> [course_id |-> 1, title |-> 1])
    /\ nextLessonId = 2
    /\ enrollments = {[user_id |-> 1, course_id |-> 1, progress |-> Zero,
                       completed_at |-> NoTime]}
    /\ completions = {}
    /\ tests = (1 :> [lesson_id |-> 1, passing_score |-> 50,
                      questions |-> LedgerQuestions(1)])
    /\ nextTestId = 2
    /\ attempts = <<>>
    /\ now = 1
    /\ resp = Resp("none", 0, 0, 0, "")
    /\ graded = NotGraded
    /\ rows = {}
    /\ reqs = <<>>
    /\ accounts = SeedAccounts
    /\ nextUserId = 6
    /\ issued = {}

NextRace ==
    \/ \E u \in RaceLearners, l \in RaceLessons : StartMark(u, l)
    \/ \E i \in DOMAIN reqs : MarkCheck(i)
    \/ \E i \in DOMAIN reqs : MarkInsert(i)
    \/ \E i \in DOMAIN reqs : MarkProgress(i)
    \/ \E u \in RaceLearners, l \in RaceLessons : StartComplete(u, l)
    \/ \E i \in DOMAIN reqs : CompleteCheck(i)
    \/ \E i \in DOMAIN reqs : CompleteCommit(i)
    \/ \E u \in RaceLearners, t \in RaceTests :
          \E answers \in RaceAnswers(t) : StartAttempt(u, t, answers)
    \/ \E i \in DOMAIN reqs : AttemptCheck(i)
    \/ \E i \in DOMAIN reqs : AttemptInsert(i)
    \/ \E i \in DOMAIN reqs : AttemptProgress(i)
    \/ \E u \in RaceLearners, l \in RaceLessons : StartUnmark(u, l)
    \/ \E i \in DOMAIN reqs : UnmarkDelete(i)

SpecRace == InitRace /\ [][NextRace]_vars

-----------------------------------------------------------------------------
(* The progress specification: the interleaved requests of one learner on  *)
(* a course of two lessons, with the progress update that follows the      *)
(* commit of a completion split at its awaits: the select of the           *)
(* enrollment, the two counts, and the commit that writes the enrollment.  *)
(* A select reads what is committed when it runs.  Lesson 2 has test 1.    *)

\* The status of a request that has written its progress.
SuccessStatus(kind) == IF kind = "mark" THEN 201 ELSE 200

\* mark_lesson_complete, submit_test_attempt: the select of the enrollment
\* after the commit of the completion.  Without an enrollment the handler
\* returns.
ProgressLoad(i) ==
    LET r == reqs[i]
        c == lessons[r.lesson].course_id
        found == EnrollmentsOf(r.user, c)
    IN  /\ r.kind \in {"mark", "attempt"} /\ r.pc = "progress"
        /\ reqs' = [reqs EXCEPT ![i] =
              IF found = {} THEN Finish(r, SuccessStatus(r.kind), "")
              ELSE [r EXCEPT !.pc = "count",
                             !.loaded = (CHOOSE e \in found : TRUE).progress]]
        /\ UNCHANGED <<rows, completions, enrollments, attempts, now,
                       raceframe>>

\* The count of the lessons of the course and the count of the principal's
\* completions in it, and the progress computed from them.
ProgressCount(i) ==
    LET r == reqs[i]
        c == lessons[r.lesson].course_id
    IN  /\ r.kind \in {"mark", "attempt"} /\ r.pc = "count"
        /\ reqs' = [reqs EXCEPT ![i] =
              [r EXCEPT !.pc = "write",
                        !.counted = ProgressAfterCommit(completions, r.user, c)]]
        /\ UNCHANGED <<rows, completions, enrollments, attempts, now,
                       raceframe>>

\* The UPDATE that the commit sends for the enrollment e: the session
\* writes the columns whose value was changed on the object it loaded, so
\* progress_percentage is written when the computed value differs from the
\* loaded one, and completed_at when the computed value is at least 100.
Flushed(e, loaded, counted) ==
    [e EXCEPT !.progress = IF counted # loaded THEN counted ELSE @,
              !.completed_at = IF PctGe(counted, 100) THEN now ELSE @]

\* enrollment.progress_percentage = ...; enrollment.completed_at = ...;
\* await db.commit()
ProgressWrite(i) ==
    LET r == reqs[i]
        c == lessons[r.lesson].course_id
    IN  /\ r.kind \in {"mark", "attempt"} /\ r.pc = "write"
        /\ enrollments' =
              {IF e.user_id = r.user /\ e.course_id = c
               THEN Flushed(e, r.loaded, r.counted) ELSE e : e \in enrollments}
        /\ Tick(ReadsClock(r.user, c, r.counted))
        /\ reqs' = [reqs EXCEPT ![i] =
                      [Finish(r, SuccessStatus(r.kind), "") EXCEPT
                          !.commits = r.commits + 1]]
        /\ UNCHANGED <<rows, completions, attempts, raceframe>>

ProgressLessons == {1, 2}

InitProgress ==
    /\ courses = (1 :> [instructor_id |-> 3, is_published |-> TRUE])
    /\ nextCourseId = 2
    /\ lessons = <<[course_id |-> 1, title |-> 1],
                   [course_id |-> 1, title |-> 2]>>
    /\ nextLessonId = 3
    /\ enrollments = {[user_id |-> 1, course_id |-> 1, progress |-> Zero,
                       completed_at |-> NoTime]}
    /\ completions = {}
    /\ tests = (1 :> [lesson_id |-> 2, passing_score |-> 50,
                      questions |-> LedgerQuestions(1)])
    /\ nextTestId = 2
    /\ attempts = <<>>
    /\ now = 1
    /\ resp = Resp("none", 0, 0, 0, "")
    /\ graded = NotGraded
    /\ rows = {}
    /\ reqs = <<>>
    /\ accounts = SeedAccounts
    /\ nextUserId = 6
    /\ issued = {}

NextProgress ==
    \/ \E u \in RaceLearners, l \in ProgressLessons : StartMark(u, l)
    \/ \E u \in RaceLearners, t \in RaceTests :
          \E a \in RaceAnswers(t) : StartAttempt(u, t, a)
    \/ \E i \in DOMAIN reqs : MarkCheck(i)
    \/ \E i \in DOMAIN reqs : MarkInsert(i)
    \/ \E i \in DOMAIN reqs : AttemptCheck(i)
    \/ \E i \in DOMAIN reqs : AttemptInsert(i)
    \/ \E i \in DOMAIN reqs : ProgressLoad(i)
    \/ \E i \in DOMAIN reqs : ProgressCount(i)
    \/ \E i \in DOMAIN reqs : ProgressWrite(i)

SpecProgress == InitProgress /\ [][NextProgress]_vars

-----------------------------------------------------------------------------
(* The authentication specification: registration, split at its awaits on  *)
(* the database, login and GET /auth/me, with the clock advancing in steps  *)
(* of half a token lifetime.  The users table starts with principal 1.     *)

\* Settings.ACCESS_TOKEN_EXPIRE_MINUTES
ACCESS_TOKEN_EXPIRE_MINUTES == 30

\* Settings.SECRET_KEY, and a key the server does not hold.
SECRET_KEY == "secret"

OtherKey == "other"

\* EmailStr validation: the domain is lower-cased, the local part is kept.
NormalizedEmail(raw) ==
    Email(raw.local, IF raw.domain = "X" THEN "x" ELSE raw.domain)

\* select(User).where(User.email == email)
UsersWithEmail(email) == {id \in DOMAIN accounts : accounts[id].email = email}

\* A lookup that never finds the registered address.
EmailTakenNever(email) == FALSE

\* register: existing_user
EmailTaken(email) == UsersWithEmail(email) # {}

\* User.email: unique=True, checked by the commit that inserts.
EmailUniqueViolation(email) == UsersWithEmail(email) # {}

\* create_access_token(data={"sub": user.email})
create_access_token(sub) ==
    [sub |-> sub, exp |-> now + ACCESS_TOKEN_EXPIRE_MINUTES,
     key |-> SECRET_KEY]

\* decode_access_token: the payload, or None (<<>>) when the signature does
\* not verify or the token has expired (exp < now).
decode_access_token(token) ==
    IF token.key # SECRET_KEY \/ token.exp < now THEN <<>>
    ELSE [sub |-> token.sub]

\* POST /auth/register, up to the select of the existing user.
StartRegister(raw, password, role) ==
    LET email == NormalizedEmail(raw)
        r == Request("register", 0,
                     [email |-> email, password |-> password, role |-> role],
                     0, "commit")
    IN  /\ Len(reqs) < MaxRegs
        /\ reqs' = Append(reqs,
              IF EmailTaken(email)
              THEN Finish(r, 400, "User with this email already exists")
              ELSE r)
        /\ UNCHANGED <<dbvars, resp, graded, rows, authvars>>

\* register: db.add(db_user); await db.commit()
RegisterCommit(i) ==
    LET r == reqs[i]
        e == IntegrityError(0, 0)
    IN  /\ r.kind = "register" /\ r.pc = "commit"
        /\ IF EmailUniqueViolation(r.arg.email) THEN
              /\ reqs' = [reqs EXCEPT ![i] = Finish(r, e.status, e.detail)]
              /\ UNCHANGED <<accounts, nextUserId>>
           ELSE
              /\ nextUserId <= MaxUsers
              /\ accounts' = (nextUserId :>
                    [email |-> r.arg.email,
                     hashed_password |-> get_password_hash(r.arg.password),
                     role |-> r.arg.role]) @@ accounts
              /\ nextUserId' = nextUserId + 1
              /\ reqs' = [reqs EXCEPT ![i] =
                            [Finish(r, 201, "") EXCEPT !.commits = 1,
                                                       !.user = nextUserId]]
        /\ UNCHANGED <<dbvars, resp, graded, rows, issued>>

\* POST /auth/login
Login(raw, password) ==
    LET email == NormalizedEmail(raw)
        found == UsersWithEmail(email)
        arg == [email |-> email, password |-> password]
    IN  IF found = {}
           \/ \A id \in found :
                 ~verify_password(password, accounts[id].hashed_password)
        THEN
            /\ resp' = Resp("login", 0, arg, 401, "Incorrect email or password")
            /\ UNCHANGED <<dbvars, graded, racevars, authvars>>
        ELSE
            LET id == CHOOSE x \in found : TRUE
                token == create_access_token(accounts[id].email)
            IN  /\ Cardinality(issued) < MaxTokens
                /\ resp' = RespBody("login", 0, arg, 200, <<token>>)
                /\ issued' = issued \cup {[token |-> token, to |-> id]}
                /\ UNCHANGED <<dbvars, graded, racevars, accounts,
                               nextUserId>>

\* GET /auth/me with the bearer token `token` (get_current_user).
GetMe(token) ==
    LET payload == decode_access_token(token)
        found == IF payload = <<>> THEN {} ELSE UsersWithEmail(payload.sub)
    IN  /\ resp' =
              IF payload = <<>>
              THEN Resp("get_me", 0, token, 401,
                        "Invalid authentication credentials")
              ELSE IF found = {}
              THEN Resp("get_me", 0, token, 401, "User not found")
              ELSE RespBody("get_me", CHOOSE x \in found : TRUE, token, 200,
                            <<CHOOSE x \in found : TRUE>>)
        /\ UNCHANGED <<dbvars, graded, racevars, authvars>>

\* Half a token lifetime passes.
Pass ==
    /\ now + (ACCESS_TOKEN_EXPIRE_MINUTES \div 2) <= MaxMinutes
    /\ now' = now + (ACCESS_TOKEN_EXPIRE_MINUTES \div 2)
    /\ UNCHANGED <<courses, nextCourseId, lessons, nextLessonId, enrollments,
                   completions, tests, nextTestId, attempts, resp, graded,
                   racevars, authvars>>

\* The addresses sent by the clients: 1@x (registered at the start), the
\* same address with the domain in capitals, and 2@x.
RawEmails == {Email(1, "x"), Email(1, "X"), Email(2, "x")}

Passwords == {1, 2}

\* The tokens presented to /auth/me: those given out by login, and a token
\* for principal 1 signed with a key the server does not hold.
PresentedTokens ==
    {t.token : t \in issued}
      \cup {[sub |-> Email(1, "x"), exp |-> MaxMinutes, key |-> OtherKey]}

InitAuth ==
    /\ courses = <<>>
    /\ nextCourseId = 1
    /\ lessons = <<>>
    /\ nextLessonId = 1
    /\ enrollments = {}
    /\ completions = {}
    /\ tests = <<>>
    /\ nextTestId = 1
    /\ attempts = <<>>
    /\ now = 1
    /\ resp = Resp("none", 0, 0, 0, "")
    /\ graded = NotGraded
    /\ rows = {}
    /\ reqs = <<>>
    /\ accounts = Restrict(SeedAccounts, {1})
    /\ nextUserId = 2
    /\ issued = {}

NextAuth ==
    \/ \E raw \in RawEmails, password \in Passwords :
          StartRegister(raw, password, STUDENT)
    \/ \E i \in DOMAIN reqs : RegisterCommit(i)
    \/ \E raw \in RawEmails, password \in Passwords : Login(raw, password)
    \/ \E token \in PresentedTokens : GetMe(token)
    \/ Pass

SpecAuth == InitAuth /\ [][NextAuth]_vars

-----------------------------------------------------------------------------
(* The two-learner specification: the learner requests of students 1 and 2  *)
(* on course 1 (published, lesson 1 with test 1), with the reads that       *)
(* report their records.                                                    *)

Peers == {1, 2}

InitPeers ==
    /\ courses = (1 :> [instructor_id |-> 3, is_published |-> TRUE])
    /\ nextCourseId = 2
    /\ lessons = (1 :> [course_id |-> 1, title |-> 1])
    /\ nextLessonId = 2
    /\ enrollments = {}
    /\ completions = {}
    /\ tests = (1 :> [lesson_id |-> 1, passing_score |-> 50,
                      questions |-> LedgerQuestions(1)])
    /\ nextTestId = 2
    /\ attempts = <<>>
    /\ now = 1
    /\ resp = Resp("none", 0, 0, 0, "")
    /\ graded = NotGraded
    /\ rows = {}
    /\ reqs = <<>>
    /\ accounts = SeedAccounts
    /\ nextUserId = 6
    /\ issued = {}

NextPeers ==
    \/ \E u \in Peers, c \in DOMAIN courses : Enroll(u, c)
    \/ \E u \in Peers, l \in DOMAIN lessons : MarkLessonComplete(u, l)
    \/ \E u \in Peers, l \in DOMAIN lessons : CompleteLesson(u, l)
    \/ \E u \in Peers, l \in DOMAIN lessons : RemoveLessonCompletion(u, l)
    \/ \E u \in Peers, t \in DOMAIN tests :
          \E answers \in RaceAnswers(t) : SubmitTestAttempt(u, t, answers)
    \/ \E u \in Peers : GetMyEnrollments(u)
    \/ \E u \in Peers, c \in DOMAIN courses : GetCourseProgress(u, c)
    \/ \E u \in Peers, t \in DOMAIN tests : GetMyTestAttempts(u, t)
    \/ \E u \in Peers, c \in DOMAIN courses : GetCourseLessons(u, c)
    \/ \E u \in Peers, l \in DOMAIN lessons : GetLesson(u, l)

SpecPeers == InitPeers /\ [][NextPeers]_vars

-----------------------------------------------------------------------------
(* The grading rules as the specification words them, for the properties   *)
(* below.                                                                  *)

IntegerKinds == {"int", "str", "float", "bool"}

Flagged(q) == {o.id : o \in {x \in q.answer_options : x.is_correct}}

Submitted(g, q) == IF q.id \in DOMAIN g.answers THEN g.answers[q.id] ELSE JNull

\* The elements of a submitted value: those of the list, or the scalar alone.
Items(v) == IF v.k = "list" THEN v.xs ELSE <<v>>

\* The value coerces to a set of integer option ids.
CoercesToSet(v) ==
    v.k # "null" /\ \A i \in 1..Len(Items(v)) : Items(v)[i].k \in IntegerKinds

IdSet(v) == {Items(v)[i].n : i \in 1..Len(Items(v))}

\* The one value a single-choice answer stands for.
Chosen(v) == IF v.k = "list" /\ Len(v.xs) > 0 THEN v.xs[1] ELSE v

\* The value coerces to one integer option id.
CoercesToId(v) == v.k # "null" /\ Chosen(v).k \in IntegerKinds

\* The question is answered correctly by v.
AnsweredCorrectly(q, v) ==
    \/ q.question_type = SINGLE_CHOICE /\ CoercesToId(v)
         /\ Chosen(v).n \in Flagged(q)
    \/ q.question_type = MULTIPLE_CHOICE /\ CoercesToSet(v)
         /\ IdSet(v) = Flagged(q)

IsGradable(q) == q.question_type \in {SINGLE_CHOICE, MULTIPLE_CHOICE}

RECURSIVE SumOver(_, _)
SumOver(S, f) ==
    IF S = {} THEN 0
    ELSE LET x == CHOOSE y \in S : TRUE IN f[x] + SumOver(S \ {x}, f)

QuestionIndexes(g) == 1..Len(g.questions)

\* Sum of the points of the gradable questions of the grading g.
PossiblePoints(g) ==
    SumOver({i \in QuestionIndexes(g) : IsGradable(g.questions[i])},
            [i \in QuestionIndexes(g) |-> g.questions[i].points])

\* Sum of the points of the gradable questions answered correctly.
CorrectPoints(g) ==
    SumOver({i \in QuestionIndexes(g) :
                /\ IsGradable(g.questions[i])
                /\ AnsweredCorrectly(g.questions[i],
                                     Submitted(g, g.questions[i]))},
            [i \in QuestionIndexes(g) |-> g.questions[i].points])

\* The grading g is of a test whose only gradable question is q.
OnlyGradable(g, q) ==
    /\ g.done
    /\ \E i \in QuestionIndexes(g) :
          /\ g.questions[i] = q
          /\ \A j \in QuestionIndexes(g) \ {i} : ~IsGradable(g.questions[j])

QuestionsOf(g) == {g.questions[i] : i \in QuestionIndexes(g)}

\* C4: a multiple-choice question whose submitted answer coerces to a set S
\* of integer option ids earns its full points if S equals the set of the
\* option ids flagged correct, and zero for any other S (a proper subset, a
\* proper superset): no partial credit.
C4_MultipleChoiceExactSet ==
    \A q \in QuestionsOf(graded) :
        (/\ OnlyGradable(graded, q)
         /\ q.question_type = MULTIPLE_CHOICE
         /\ CoercesToSet(Submitted(graded, q)))
        => /\ graded.exc = NoExc
           /\ graded.earned_points =
                 IF IdSet(Submitted(graded, q)) = Flagged(q)
                 THEN q.points ELSE 0

\* A proper, non-empty subset of the correct set was submitted as a list and
\* earned nothing.
C4_Witness ==
    \E q \in QuestionsOf(graded) :
        /\ OnlyGradable(graded, q)
        /\ q.question_type = MULTIPLE_CHOICE
        /\ q.points = 2
        /\ Submitted(graded, q).k = "list"
        /\ CoercesToSet(Submitted(graded, q))
        /\ IdSet(Submitted(graded, q)) # {}
        /\ IdSet(Submitted(graded, q)) \subseteq Flagged(q)
        /\ IdSet(Submitted(graded, q)) # Flagged(q)
        /\ graded.earned_points = 0

\* C5: a single-choice answer is coerced to one integer option id, the first
\* element when a non-empty list is submitted, and the question earns its
\* full points if and only if that id is flagged correct, else zero.
C5_SingleChoiceMembership ==
    \A q \in QuestionsOf(graded) :
        (/\ OnlyGradable(graded, q)
         /\ q.question_type = SINGLE_CHOICE
         /\ CoercesToId(Submitted(graded, q)))
        => /\ graded.exc = NoExc
           /\ graded.earned_points =
                 IF Chosen(Submitted(graded, q)).n \in Flagged(q)
                 THEN q.points ELSE 0

\* A list whose first element is a correct option and whose second is not
\* earned the full points.
C5_Witness ==
    \E q \in QuestionsOf(graded) :
        /\ OnlyGradable(graded, q)
        /\ q.question_type = SINGLE_CHOICE
        /\ q.points = 2
        /\ Submitted(graded, q).k = "list"
        /\ Len(Submitted(graded, q).xs) = 2
        /\ Submitted(graded, q).xs[1].k = "int"
        /\ Submitted(graded, q).xs[1].n \in Flagged(q)
        /\ Submitted(graded, q).xs[2].k = "int"
        /\ Submitted(graded, q).xs[2].n \notin Flagged(q)
        /\ graded.earned_points = 2

\* The passed flag of a grading is score >= passing_score.
PassedIsThreshold(g) ==
    g.passed <=> (100 * g.score.n >= g.passing_score * g.score.d)

\* C6 as stated: the score is 100 * (points of the gradable questions
\* answered correctly) / (points of all gradable questions), free-text
\* questions in neither sum; 0 when the gradable points sum to zero; and
\* passed if and only if score >= passing_score.
C6_ScoreAsStated ==
    (graded.done /\ graded.exc = NoExc)
    => /\ IF PossiblePoints(graded) = 0
          THEN graded.score.n = 0
          ELSE graded.score.n * PossiblePoints(graded)
                 = CorrectPoints(graded) * graded.score.d
       /\ PassedIsThreshold(graded)

\* C7: a gradable question whose answer is missing or cannot be coerced to
\* integer option ids earns zero, the other questions are still graded, and
\* the request completes without an error.
C7_UnparseableEarnsZero ==
    (/\ graded.done
     /\ \E q \in QuestionsOf(graded) :
           /\ IsGradable(q)
           /\ \/ Submitted(graded, q).k = "null"
              \/ q.question_type = SINGLE_CHOICE
                   /\ ~CoercesToId(Submitted(graded, q))
              \/ q.question_type = MULTIPLE_CHOICE
                   /\ ~CoercesToSet(Submitted(graded, q)))
    => /\ graded.exc = NoExc
       /\ graded.earned_points = CorrectPoints(graded)

-----------------------------------------------------------------------------
(* Properties of the ledger.                                               *)

\* The lessons of course c the principal u has a completion record for.
DoneLessons(u, c) ==
    {l \in DOMAIN lessons :
        /\ lessons[l].course_id = c
        /\ [user_id |-> u, lesson_id |-> l] \in completions}

CourseLessons(c) == {l \in DOMAIN lessons : lessons[l].course_id = c}

\* p is the percentage 100 * k / n
IsPercentage(p, k, n) == p.n * n = k * p.d

\* C1: after every request, every enrollment (u, c) has progress_percentage
\* = 100 * (lessons of c completed by u) / (lessons of c).
C1_ProgressIsRatio ==
    \A e \in enrollments :
        CourseLessons(e.course_id) # {}
        => IsPercentage(e.progress,
                        Cardinality(DoneLessons(e.user_id, e.course_id)),
                        Cardinality(CourseLessons(e.course_id)))

\* C2: an enrolled principal who holds a completion record for every lesson
\* of a course with at least one lesson has progress_percentage exactly 100
\* and completed_at set.
C2_AllCompletedIsHundred ==
    \A e \in enrollments :
        (/\ CourseLessons(e.course_id) # {}
         /\ DoneLessons(e.user_id, e.course_id) = CourseLessons(e.course_id))
        => /\ e.progress = [n |-> 1, d |-> 1]
           /\ e.completed_at # NoTime

\* C3: once set, an enrollment's completed_at keeps its value in every later
\* state: no request overwrites it or clears it.
C3_CompletedAtWrittenOnce ==
    [][\A e \in enrollments :
          e.completed_at # NoTime
          => \E f \in enrollments' :
                /\ f.user_id = e.user_id
                /\ f.course_id = e.course_id
                /\ f.completed_at = e.completed_at]_vars

\* The step records a test attempt.
RecordsAttempt == Len(attempts') = Len(attempts) + 1

\* C8: a passing attempt by u on a test of lesson l, when u has no
\* completion record for l, creates exactly the completion record (u, l)
\* and, if u is enrolled in l's course, sets that enrollment's progress to
\* the recomputed ratio; a failing attempt creates no completion record and
\* leaves every enrollment unchanged.
C8_PassingAttemptCompletes ==
    [][RecordsAttempt =>
        LET a == attempts'[Len(attempts')]
            u == a.user_id
            l == tests[a.test_id].lesson_id
            c == lessons[l].course_id
            rec == [user_id |-> u, lesson_id |-> l]
        IN  /\ (a.passed /\ rec \notin completions)
               => /\ completions' = completions \cup {rec}
                  /\ \A e \in enrollments :
                        (e.user_id = u /\ e.course_id = c)
                        => \E f \in enrollments' :
                              /\ f.user_id = u
                              /\ f.course_id = c
                              /\ f.progress =
                                   Pct(Cardinality(DoneLessons(u, c) \cup {l}),
                                       Cardinality(CourseLessons(c)))
                  /\ Cardinality(enrollments') = Cardinality(enrollments)
            /\ ~a.passed
               => /\ completions' = completions
                  /\ enrollments' = enrollments]_vars

\* The last request was a passing attempt on the test of a lesson the
\* learner now has completed, in a course of two lessons, and the
\* enrollment stands at 50.
C8_Witness ==
    /\ resp.op = "attempt"
    /\ resp.status = 200
    /\ attempts # <<>>
    /\ attempts[Len(attempts)].passed
    /\ \E e \in enrollments :
          /\ e.user_id = resp.user
          /\ e.progress = [n |-> 1, d |-> 2]
          /\ DoneLessons(e.user_id, e.course_id)
               = {tests[resp.arg].lesson_id}

\* At most one enrollment per (principal, course).
UniqueEnrollment ==
    \A e, f \in enrollments :
        (e.user_id = f.user_id /\ e.course_id = f.course_id) => e = f

\* What an enroll request answers and does.
EnrollStep ==
    resp'.op = "enroll" =>
        LET u == resp'.user
            c == resp'.arg
        IN  IF c \notin DOMAIN courses
            THEN resp'.status = 404 /\ enrollments' = enrollments
            ELSE IF ~courses[c].is_published
            THEN resp'.status = 400 /\ enrollments' = enrollments
            ELSE IF \E e \in enrollments : e.user_id = u /\ e.course_id = c
            THEN /\ resp'.status = 400
                 /\ resp'.detail = "Already enrolled in this course"
                 /\ enrollments' = enrollments
            ELSE /\ resp'.status = 201
                 /\ enrollments' = enrollments \cup
                       {[user_id |-> u, course_id |-> c, progress |-> Zero,
                         completed_at |-> NoTime]}
                 /\ Cardinality(enrollments') = Cardinality(enrollments) + 1

\* C9: enroll answers 404 for a missing course, 400 for an unpublished one,
\* 400 (already enrolled) when the enrollment exists, each time leaving the
\* enrollments as they were; otherwise 201 and exactly one new enrollment
\* with progress 0 and no completion timestamp.  So there is at most one
\* enrollment per (principal, course).
C9_Enroll == []UniqueEnrollment /\ [][EnrollStep]_vars

\* A second enroll was refused and the enrollment, at 100, is as it was.
C9_Witness ==
    /\ resp.op = "enroll"
    /\ resp.status = 400
    /\ resp.detail = "Already enrolled in this course"
    /\ \E e \in enrollments :
          /\ e.user_id = resp.user
          /\ e.course_id = resp.arg
          /\ e.progress = [n |-> 1, d |-> 1]

\* C10: every enrollment's progress_percentage is in [0, 100].
C10_ProgressInRange ==
    \A e \in enrollments :
        /\ e.progress.d > 0
        /\ 0 <= e.progress.n
        /\ e.progress.n <= e.progress.d

\* complete_lesson answered 200 and left the enrollment at 100, the
\* learner's second completion in a course of two lessons.
C10_Witness ==
    /\ resp.op = "complete_lesson"
    /\ resp.status = 200
    /\ \E e \in enrollments :
          /\ e.user_id = resp.user
          /\ e.course_id = lessons[resp.arg].course_id
          /\ e.progress = [n |-> 1, d |-> 1]
          /\ Cardinality(DoneLessons(e.user_id, e.course_id)) = 2

\* The last request went to one of the two lesson-completion endpoints.
CompletionEndpoints == {"mark_complete", "complete_lesson"}

\* The principal u has an enrollment in the course of the lesson l.
EnrolledInCourseOf(u, l) ==
    \E e \in enrollments :
        e.user_id = u /\ e.course_id = lessons[l].course_id

\* A mark-complete request that must fail does: 404 for an absent lesson,
\* 400 with the detail for a lesson already completed, and it leaves the
\* completions and the enrollments as they were.  The detail is "Lesson
\* already completed"; with byEndpoint, complete_lesson answers a principal
\* who is not enrolled with "Not enrolled in this course".
MarkCompleteFails(byEndpoint) ==
    resp'.op \in CompletionEndpoints =>
        LET u == resp'.user
            l == resp'.arg
        IN  /\ l \notin DOMAIN lessons
               => /\ resp'.status = 404
                  /\ completions' = completions
                  /\ enrollments' = enrollments
            /\ (/\ l \in DOMAIN lessons
                /\ [user_id |-> u, lesson_id |-> l] \in completions)
               => /\ resp'.status = 400
                  /\ resp'.detail =
                        IF /\ byEndpoint
                           /\ resp'.op = "complete_lesson"
                           /\ ~EnrolledInCourseOf(u, l)
                        THEN "Not enrolled in this course"
                        ELSE "Lesson already completed"
                  /\ completions' = completions
                  /\ enrollments' = enrollments

\* C11 as stated: a mark-complete request fails with 404 when the lesson
\* does not exist and with 400 "Lesson already completed" when the principal
\* already has a completion record for it; neither failure creates a
\* completion record or modifies an enrollment.
C11_MarkCompleteErrors == [][MarkCompleteFails(FALSE)]_vars

\* C11 amended: as above, except that POST /enrollments/lessons/complete by
\* a principal who is not enrolled in the lesson's course answers the 400
\* with "Not enrolled in this course".
C11_MarkCompleteErrorsAmended == [][MarkCompleteFails(TRUE)]_vars

\* A second POST /lessons/{id}/complete was refused as already completed
\* and the enrollment stands at 100.
C11_Witness ==
    /\ resp.op = "mark_complete"
    /\ resp.status = 400
    /\ resp.detail = "Lesson already completed"
    /\ [user_id |-> resp.user, lesson_id |-> resp.arg] \in completions
    /\ \E e \in enrollments :
          e.user_id = resp.user /\ e.progress = [n |-> 1, d |-> 1]

\* C12: a request to a lesson-completion endpoint by a principal with no
\* enrollment in the lesson's course fails and creates no completion record.
C12_CompletionNeedsEnrollment ==
    [][(/\ resp'.op \in CompletionEndpoints
        /\ resp'.arg \in DOMAIN lessons
        /\ ~EnrolledInCourseOf(resp'.user, resp'.arg))
       => /\ resp'.status >= 400
          /\ completions' = completions]_vars

\* C15: an unmark request answers 404 and changes nothing when the principal
\* has no completion record for the lesson; otherwise it deletes exactly
\* that record and leaves the enrollments (progress_percentage and
\* completed_at) and every other record unchanged.
C15_UnmarkFrame ==
    [][resp'.op = "unmark" =>
        LET rec == [user_id |-> resp'.user, lesson_id |-> resp'.arg]
        IN  IF rec \notin completions
            THEN /\ resp'.status = 404
                 /\ UNCHANGED dbvars
            ELSE /\ resp'.status = 204
                 /\ completions' = completions \ {rec}
                 /\ UNCHANGED <<courses, lessons, enrollments, tests,
                                attempts>>]_vars

\* An unmark deleted the learner's completion of lesson 1 and kept the one
\* of lesson 2; the enrollment still reads 100 and its timestamp.
C15_Witness ==
    /\ resp.op = "unmark"
    /\ resp.status = 204
    /\ resp.arg = 1
    /\ completions = {[user_id |-> resp.user, lesson_id |-> 2]}
    /\ \E e \in enrollments :
          /\ e.user_id = resp.user
          /\ e.progress = [n |-> 1, d |-> 1]
          /\ e.completed_at # NoTime

-----------------------------------------------------------------------------
(* Properties of the catalog.                                              *)

\* The operations that check the ownership of a course.
OwnedOps ==
    {"update_course", "delete_course", "create_lesson", "update_lesson",
     "delete_lesson", "create_test"}

\* The operations behind the role gate.
GatedOps == OwnedOps \cup {"create_course"}

Succeeded(r) == r.status \in {200, 201, 204}

\* The course a catalog request is about: the course itself, the course
\* named for a new lesson, the course of the lesson, the course of the
\* lesson of a new test; 0 if there is no such course.
TargetCourse(r) ==
    IF r.op \in {"update_course", "delete_course", "create_lesson"}
    THEN IF r.arg \in DOMAIN courses THEN r.arg ELSE 0
    ELSE IF r.arg \in DOMAIN lessons THEN lessons[r.arg].course_id ELSE 0

\* C16: a request to update or delete a course, to create, update or delete
\* a lesson, or to create a test succeeds only if the acting principal is
\* the instructor of the course concerned; any other principal (another
\* instructor, an administrator, a student) gets 403 and the course, lesson
\* and test records stay unchanged.
C16_OwnershipGate ==
    [][resp'.op \in OwnedOps =>
        LET c == TargetCourse(resp')
        IN  /\ (c # 0 /\ courses[c].instructor_id # resp'.user)
               => /\ resp'.status = 403
                  /\ UNCHANGED <<courses, lessons, tests>>
            /\ Succeeded(resp')
               => (c # 0 /\ courses[c].instructor_id = resp'.user)]_vars

\* The administrator asked to delete the course of instructor 3, got 403,
\* and the course is still there.
C16_Witness ==
    /\ resp.op = "delete_course"
    /\ Role(resp.user) = ADMIN
    /\ resp.status = 403
    /\ resp.arg \in DOMAIN courses
    /\ courses[resp.arg].instructor_id = 3

\* C17: a student is answered 403 by every role-gated operation and the
\* request changes no stored record; only instructors and administrators
\* pass the gate (course creation, which has no other check, then
\* succeeds).
C17_RoleGate ==
    [][resp'.op \in GatedOps =>
        /\ Role(resp'.user) = STUDENT
           => (resp'.status = 403 /\ UNCHANGED dbvars)
        /\ resp'.status # 403 => Role(resp'.user) \in {INSTRUCTOR, ADMIN}
        /\ (resp'.op = "create_course"
              /\ Role(resp'.user) \in {INSTRUCTOR, ADMIN})
           => resp'.status = 201]_vars

\* The student asked to update an existing course and got 403.
C17_Witness ==
    /\ resp.op = "update_course"
    /\ Role(resp.user) = STUDENT
    /\ resp.status = 403
    /\ resp.arg \in DOMAIN courses

\* The elements of a sequence.
Range(q) == {q[i] : i \in 1..Len(q)}

Max(a, b) == IF a > b THEN a ELSE b

\* C18: the list GET /courses/ returns with the default parameters holds no
\* unpublished course and holds every published course within the
\* skip/limit window (all of them when the window covers them all); with
\* is_published = false the list is drawn from all the courses.
C18_CourseList ==
    resp.op = "get_courses" =>
        LET a == resp.arg
            pool == IF a.is_published
                    THEN {c \in DOMAIN courses : courses[c].is_published}
                    ELSE DOMAIN courses
        IN  /\ resp.status = 200
            /\ Range(resp.body) \subseteq pool
            /\ Cardinality(Range(resp.body)) = Len(resp.body)
            /\ Len(resp.body)
                 = Min(a.limit, Max(0, Cardinality(pool) - a.skip))
            /\ (a.skip = 0 /\ a.limit >= Cardinality(pool))
               => Range(resp.body) = pool

\* The default list was requested while an unpublished course of another
\* principal exists, and it holds the published course only.
C18_Witness ==
    /\ resp.op = "get_courses"
    /\ resp.arg = [skip |-> DefaultSkip, limit |-> DefaultLimit,
                   is_published |-> TRUE]
    /\ resp.body = <<1>>
    /\ \E c \in DOMAIN courses :
          ~courses[c].is_published /\ courses[c].instructor_id # resp.user

\* No lesson and no enrollment refers to a course that is not there.
NoOrphans ==
    /\ \A l \in DOMAIN lessons : lessons[l].course_id \in DOMAIN courses
    /\ \A e \in enrollments : e.course_id \in DOMAIN courses

\* A lookup of a course or lesson that is not there, or of the progress in
\* such a course, was answered 404.
LookupsOfDeleted ==
    /\ (resp.op \in {"get_course", "get_progress"}
          /\ resp.arg \notin DOMAIN courses) => resp.status = 404
    /\ (resp.op = "get_lesson" /\ resp.arg \notin DOMAIN lessons)
       => resp.status = 404

\* A successful course deletion removes the course with its lessons and
\* enrollments and leaves the records of the other courses as they were.
DeleteCourseStep ==
    (resp'.op = "delete_course" /\ resp'.status = 204) =>
        LET c == resp'.arg
            kept == {l \in DOMAIN lessons : lessons[l].course_id # c}
        IN  /\ DOMAIN courses' = DOMAIN courses \ {c}
            /\ \A d \in DOMAIN courses' : courses'[d] = courses[d]
            /\ DOMAIN lessons' = kept
            /\ \A l \in kept : lessons'[l] = lessons[l]
            /\ enrollments' = {e \in enrollments : e.course_id # c}
            /\ completions' = {x \in completions : x.lesson_id \in kept}
            /\ DOMAIN tests' = {t \in DOMAIN tests : tests[t].lesson_id \in kept}
            /\ \A t \in DOMAIN tests' : tests'[t] = tests[t]

\* A course or lesson id that was given out and is gone does not come back.
StaysDeleted ==
    /\ \A c \in 1..(nextCourseId - 1) :
          c \notin DOMAIN courses => c \notin DOMAIN courses'
    /\ \A l \in 1..(nextLessonId - 1) :
          l \notin DOMAIN lessons => l \notin DOMAIN lessons'

\* C19: after a successful delete of a course no lesson and no enrollment
\* refers to it, every later lookup of the course, of one of its former
\* lessons or of a principal's progress in it is answered 404, and the
\* records of the other courses are unchanged.
C19_DeleteCourseCascade ==
    /\ [](NoOrphans /\ LookupsOfDeleted)
    /\ [][DeleteCourseStep /\ StaysDeleted]_vars

\* Course 1, in which the student was enrolled, is gone, course 2 is still
\* there, and the student's progress lookup for course 1 was answered 404.
C19_Witness ==
    /\ resp.op = "get_progress"
    /\ resp.arg = 1
    /\ resp.status = 404
    /\ 1 \notin DOMAIN courses
    /\ 2 \in DOMAIN courses
    /\ DOMAIN lessons = {}

-----------------------------------------------------------------------------
(* Properties of the interleaved requests.                                 *)

\* The handlers that create a completion record.
Creators == {"mark", "complete", "attempt"}

SamePair(r1, r2) == r1.user_id = r2.user_id /\ r1.lesson_id = r2.lesson_id

\* The completion row inserted by request i is in the table.
Created(i) == \E r \in rows : r.id = i

\* C13: in every state reached by interleaving the requests that complete
\* a lesson (mark-complete, complete-lesson, passing test attempts) and the
\* undo, there is at most one completion record per (principal, lesson),
\* and no step changes an existing completion record: a record is only
\* created or deleted.
C13_OneCompletionPerPair ==
    /\ [](\A r1 \in rows, r2 \in rows : SamePair(r1, r2) => r1 = r2)
    /\ [][\A r1 \in rows, r2 \in rows' : r1.id = r2.id => r1 = r2]_vars

\* A mark-complete and a passing test attempt raced on the same lesson, both
\* ran to their end, one of them was refused by the constraint, and the
\* table holds one completion.
C13_Witness ==
    \E i \in DOMAIN reqs, j \in DOMAIN reqs :
        /\ reqs[i].kind = "mark" /\ reqs[j].kind = "attempt"
        /\ reqs[i].user = reqs[j].user /\ reqs[i].lesson = reqs[j].lesson
        /\ reqs[i].pc = "done" /\ reqs[j].pc = "done"
        /\ \/ Created(i) /\ reqs[j].status = 500 /\ reqs[j].commits = 1
           \/ Created(j) /\ reqs[i].status = 500
        /\ Cardinality(rows) = 1

\* C14: a request to complete a lesson that has passed the 'already
\* completed' check and then finds, at its commit, that a concurrent request
\* of the same principal for the same lesson has committed first ends in a
\* generic failure (500, not the 400 duplicate-completion error) and
\* creates nothing; otherwise it creates the record.  So of two requests
\* that both passed the check before either committed, one creates the
\* record and the other fails, and never both hold a record.
C14_RaceLoserFailsGenerically ==
    /\ [](\A i \in DOMAIN reqs, j \in DOMAIN reqs :
            (i # j /\ reqs[i].user = reqs[j].user
               /\ reqs[i].lesson = reqs[j].lesson)
            => ~(Created(i) /\ Created(j)))
    /\ [][\A i \in DOMAIN reqs :
            (reqs[i].kind \in Creators /\ reqs[i].pc \in {"insert", "commit"}
               /\ reqs'[i] # reqs[i])
            => IF RowsOf(reqs[i].user, reqs[i].lesson) # {}
               THEN /\ reqs'[i].pc = "done"
                    /\ reqs'[i].status = 500
                    /\ reqs'[i].detail # "Lesson already completed"
                    /\ rows' = rows
               ELSE rows' = rows \cup {[id |-> i, user_id |-> reqs[i].user,
                                        lesson_id |-> reqs[i].lesson]}]_vars

\* Two mark-complete requests of the same principal for the same lesson
\* both passed the check; one answered 201 and its record is in the table,
\* the other answered 500.
C14_Witness ==
    \E i \in DOMAIN reqs, j \in DOMAIN reqs :
        /\ i # j
        /\ reqs[i].kind = "mark" /\ reqs[j].kind = "mark"
        /\ reqs[i].user = reqs[j].user /\ reqs[i].lesson = reqs[j].lesson
        /\ reqs[i].status = 201 /\ Created(i)
        /\ reqs[j].status = 500 /\ ~Created(j)
        /\ Cardinality(rows) = 1

\* A request that ended in a failure has committed nothing.
FailedWroteNothing ==
    \A i \in DOMAIN reqs :
        (reqs[i].pc = "done" /\ reqs[i].status >= 400) => reqs[i].commits = 0

\* C20: every request's mutations are all-or-nothing: a request that fails
\* has persisted none of its writes; no state holds a completion record
\* written by a mark-complete or test-attempt request of an enrolled
\* principal whose progress update is not persisted too; no state holds a
\* passing test attempt without the completion record of its lesson.
C20_AllOrNothing ==
    /\ FailedWroteNothing
    /\ \A r \in rows :
          (reqs[r.id].kind \in {"mark", "attempt"}
             /\ EnrollmentsOf(r.user_id, lessons[r.lesson_id].course_id) # {})
          => reqs[r.id].pc = "done"
    /\ \A k \in DOMAIN attempts :
          attempts[k].passed
          => RowsOf(attempts[k].user_id, tests[attempts[k].test_id].lesson_id)
               # {}

-----------------------------------------------------------------------------
(* Properties of the authentication.                                       *)

\* No two rows of the users table hold the same email.
EmailsUnique ==
    \A p \in DOMAIN accounts, q \in DOMAIN accounts :
        accounts[p].email = accounts[q].email => p = q

\* Request i is a registration that ends in this step.
RegistrationEnds(i) ==
    /\ reqs'[i].kind = "register"
    /\ reqs'[i].pc = "done"
    /\ (i \in DOMAIN reqs => reqs[i].pc # "done")

\* A registration that ends while a principal holds its email leaves the
\* users table as it is and answers the 400 duplicate-email error; with
\* byLookup, that answer is required only of the registration's own lookup,
\* and a registration that finds the email taken at its commit answers 500.
DuplicateRegistrationFails(byLookup) ==
    \A i \in DOMAIN reqs' :
        (RegistrationEnds(i) /\ UsersWithEmail(reqs'[i].arg.email) # {})
        => /\ accounts' = accounts
           /\ IF byLookup /\ i \in DOMAIN reqs
              THEN reqs'[i].status = 500
              ELSE /\ reqs'[i].status = 400
                   /\ reqs'[i].detail = "User with this email already exists"

\* A registration that arrives while a principal holds its email ends at
\* its lookup, with the 400 duplicate-email error.
TakenAtLookupFails ==
    \A i \in DOMAIN reqs' \ DOMAIN reqs :
        (reqs'[i].kind = "register" /\ UsersWithEmail(reqs'[i].arg.email) # {})
        => /\ reqs'[i].pc = "done"
           /\ reqs'[i].status = 400

\* C21: a registration request whose email equals the email of an existing
\* principal always fails with the 400 duplicate-email error and leaves the
\* set of principals unchanged, and in every reachable state no two
\* principals share an email.
C21_DuplicateEmail ==
    /\ []EmailsUnique
    /\ [][DuplicateRegistrationFails(FALSE)]_vars

\* C21 as amended: the 400 is the answer when the registration's lookup
\* finds the principal; a registration whose lookup found none and whose
\* commit finds the email registered meanwhile fails with a generic 500.
\* Either way the set of principals is unchanged, and no two principals
\* share an email.
C21_DuplicateEmailAmended ==
    /\ []EmailsUnique
    /\ [][DuplicateRegistrationFails(TRUE) /\ TakenAtLookupFails]_vars

\* A registration for the address of principal 1 was answered 400, and
\* principal 1 is the only holder of the address.
C21_Witness ==
    \E i \in DOMAIN reqs :
        /\ reqs[i].kind = "register"
        /\ reqs[i].status = 400
        /\ reqs[i].arg.email = Email(1, "x")
        /\ UsersWithEmail(reqs[i].arg.email) = {1}

\* The principals whose email and password are the ones submitted.
HoldersOf(credentials) ==
    {p \in DOMAIN accounts :
        /\ accounts[p].email = credentials.email
        /\ accounts[p].hashed_password
             = get_password_hash(credentials.password)}

\* C22: a login with a registered principal's email and correct password
\* returns a bearer token, and presenting that token, while unexpired, to
\* GET /auth/me resolves to that principal; a login with a wrong password
\* or an unknown email returns 401 and no token.
C22_LoginRoundTrip ==
    [][resp' # resp =>
        /\ resp'.op = "login" =>
              IF HoldersOf(resp'.arg) # {}
              THEN /\ resp'.status = 200
                   /\ Len(resp'.body) = 1
                   /\ \E p \in HoldersOf(resp'.arg) :
                         [token |-> resp'.body[1], to |-> p] \in issued'
              ELSE /\ resp'.status = 401
                   /\ resp'.body = <<>>
                   /\ issued' = issued
        /\ resp'.op = "get_me" =>
              \A t \in issued :
                  (t.token = resp'.arg /\ now <= t.token.exp)
                  => /\ resp'.status = 200
                     /\ resp'.body = <<t.to>>
                     /\ t.to \in DOMAIN accounts]_vars

\* A principal registered in this run logged in, and the token resolved to
\* that principal at /auth/me.
C22_Witness ==
    /\ resp.op = "get_me"
    /\ resp.status = 200
    /\ \E t \in issued :
          /\ t.token = resp.arg
          /\ t.to >= 2
          /\ resp.body = <<t.to>>

-----------------------------------------------------------------------------
(* The range of the recorded scores.                                       *)

\* C29: every recorded test-attempt score lies in the closed range
\* [0, 100], for every test the create-test operation accepts (any integer
\* points per question, any mix of question types) and every submitted
\* answer payload.
C29_ScoreInRange ==
    (graded.done /\ graded.exc = NoExc)
    => /\ graded.score.d > 0
       /\ 0 <= graded.score.n
       /\ graded.score.n <= graded.score.d

-----------------------------------------------------------------------------
(* Properties of the learners' reads and of their separation.              *)

\* C23: a progress query for (principal, course) fails with 404 when no
\* enrollment exists for the pair; when one exists it returns the
\* enrollment's stored progress_percentage and is_completed = (completed_at
\* is set); and it changes no stored record.
C23_ProgressQuery ==
    [][resp'.op = "get_progress" =>
        /\ UNCHANGED dbvars
        /\ LET mine == {e \in enrollments :
                           e.user_id = resp'.user /\ e.course_id = resp'.arg}
           IN  IF mine = {}
               THEN resp'.status = 404 /\ resp'.body = <<>>
               ELSE /\ resp'.status = 200
                    /\ Len(resp'.body) = 1
                    /\ \E e \in mine :
                          /\ resp'.body[1].progress_percentage = e.progress
                          /\ resp'.body[1].is_completed
                               <=> (e.completed_at # NoTime)]_vars

\* Learner 2 asked for the progress in a course that learner has completed
\* and the answer says so, while learner 1 is enrolled with progress 0.
C23_Witness ==
    /\ resp.op = "get_progress"
    /\ resp.user = 2
    /\ resp.status = 200
    /\ resp.body[1].is_completed
    /\ resp.body[1].progress_percentage = [n |-> 1, d |-> 1]
    /\ \E e \in enrollments : e.user_id = 1 /\ e.progress = Zero

\* The requests by which a learner changes records.
LearnerWrites ==
    {"enroll", "mark_complete", "complete_lesson", "unmark", "attempt"}

\* The attempts of principal b, in the order they were recorded.
AttemptsOf(q, b) ==
    LET Mine(a) == a.user_id = b IN SelectSeq(q, Mine)

\* C28: a request by principal A never changes the records of another
\* principal B: after an enroll, mark-complete, unmark or test-attempt
\* request by A, B's enrollments (with progress_percentage and
\* completed_at), completion records and test attempts are unchanged; and
\* the enrollment list, the progress query and the attempt list answered to
\* A contain only A's records.
C28_PrincipalsSeparated ==
    [][/\ resp'.op \in LearnerWrites =>
             \A b \in Users \ {resp'.user} :
                 /\ {e \in enrollments' : e.user_id = b}
                      = {e \in enrollments : e.user_id = b}
                 /\ {x \in completions' : x.user_id = b}
                      = {x \in completions : x.user_id = b}
                 /\ AttemptsOf(attempts', b) = AttemptsOf(attempts, b)
       /\ (resp'.op = "get_my_enrollments" /\ resp'.status = 200) =>
             /\ \A i \in 1..Len(resp'.body) : resp'.body[i].user_id = resp'.user
             /\ Range(resp'.body) = {e \in enrollments : e.user_id = resp'.user}
       /\ (resp'.op = "get_progress" /\ resp'.status = 200) =>
             \E e \in enrollments :
                 /\ e.user_id = resp'.user
                 /\ resp'.body[1].progress_percentage = e.progress
                 /\ resp'.body[1].completed_at = e.completed_at
       /\ resp'.op = "get_my_attempts" =>
             \A i \in 1..Len(resp'.body) :
                 resp'.body[i].user_id = resp'.user]_vars

\* Learner 1 completed the lesson (progress 100) while learner 2, enrolled
\* in the same course, stays at progress 0.
C28_Witness ==
    /\ resp.op \in {"mark_complete", "complete_lesson"}
    /\ resp.user = 1
    /\ Succeeded(resp)
    /\ \E e \in enrollments : e.user_id = 1 /\ e.progress = [n |-> 1, d |-> 1]
    /\ \E e \in enrollments :
          e.user_id = 2 /\ e.progress = Zero /\ e.completed_at = NoTime

\* C30: for every principal and lesson, the is_completed flag of the lesson
\* in the lesson list of its course equals the flag returned by the
\* single-lesson lookup, and both are true exactly when the principal has a
\* completion record for the lesson.
C30_CompletionFlagsAgree ==
    /\ (resp.op = "get_lesson" /\ resp.status = 200) =>
          (resp.body[1].is_completed
             <=> [user_id |-> resp.user, lesson_id |-> resp.arg]
                   \in completions)
    /\ (resp.op = "get_course_lessons" /\ resp.status = 200) =>
          \A i \in 1..Len(resp.body) :
              resp.body[i].is_completed
                <=> [user_id |-> resp.user, lesson_id |-> resp.body[i].id]
                      \in completions

-----------------------------------------------------------------------------
(* Properties of the attempt records, of the completion timestamp and of   *)
(* the two completion handlers.                                            *)

\* C24: every test-attempt submission on an existing test appends exactly
\* one attempt record (principal, test, score, passed, submitted answers),
\* whether the attempt passes or fails; no other request changes the score,
\* the passed flag or the answers of an existing attempt (it may only
\* remove attempts); a submission on a non-existent test returns 404 and
\* records no attempt.
C24_AttemptRecords ==
    [][IF resp'.op = "attempt" /\ resp' # resp
       THEN IF resp'.arg \in DOMAIN tests
            THEN /\ Len(attempts') = Len(attempts) + 1
                 /\ SubSeq(attempts', 1, Len(attempts)) = attempts
                 /\ attempts'[Len(attempts')].user_id = resp'.user
                 /\ attempts'[Len(attempts')].test_id = resp'.arg
            ELSE resp'.status = 404 /\ attempts' = attempts
       ELSE Range(attempts') \subseteq Range(attempts)]_vars

\* C26: in every reachable state, an enrollment whose completed_at is set
\* has progress_percentage equal to 100 and a completion record for every
\* lesson currently in its course.
C26_CompletedMeansAllDone ==
    \A e \in enrollments :
        e.completed_at # NoTime
        => /\ e.progress = [n |-> 1, d |-> 1]
           /\ DoneLessons(e.user_id, e.course_id) = CourseLessons(e.course_id)

\* The enrollment of (u, c) in the table es.
EnrollmentIn(es, u, c) ==
    CHOOSE e \in es : e.user_id = u /\ e.course_id = c

\* C27: for an enrolled principal the two lesson-completion handlers are
\* equivalent.  From a given state, POST /lessons/{id}/complete and POST
\* /enrollments/lessons/complete for the same principal and lesson both
\* fail when the lesson does not exist (404) or is already completed (400),
\* changing nothing, and otherwise both end in the state that the starting
\* state determines: the completion records plus (principal, lesson), the
\* progress equal to the ratio of completed lessons, completed_at set if
\* it was set or the ratio is 100, and every other enrollment as it was.
C27_CompletionHandlersAgree ==
    [][(/\ resp'.op \in {"mark_complete", "complete_lesson"}
        /\ resp'.arg \in DOMAIN lessons
             => \E e \in enrollments :
                   /\ e.user_id = resp'.user
                   /\ e.course_id = lessons[resp'.arg].course_id)
       => LET u == resp'.user
              l == resp'.arg
          IN  IF l \notin DOMAIN lessons
              THEN resp'.status = 404 /\ UNCHANGED dbvars
              ELSE IF [user_id |-> u, lesson_id |-> l] \in completions
              THEN resp'.status = 400 /\ UNCHANGED dbvars
              ELSE LET c == lessons[l].course_id
                       old == EnrollmentIn(enrollments, u, c)
                       new == EnrollmentIn(enrollments', u, c)
                       k == Cardinality(DoneLessons(u, c)) + 1
                       n == Cardinality(CourseLessons(c))
                   IN  /\ Succeeded(resp')
                       /\ completions'
                            = completions \cup {[user_id |-> u, lesson_id |-> l]}
                       /\ enrollments' \ {new} = enrollments \ {old}
                       /\ IsPercentage(new.progress, k, n)
                       /\ (new.completed_at # NoTime)
                            <=> (old.completed_at # NoTime \/ k = n)]_vars

\* complete_lesson finished a course of two lessons whose other lesson was
\* completed through mark_lesson_complete: both handlers have acted for the
\* enrolled learner, and the enrollment is at 100 with its timestamp.
C27_Witness ==
    /\ resp.op = "complete_lesson"
    /\ resp.status = 200
    /\ Cardinality(CourseLessons(1)) = 2
    /\ DoneLessons(resp.user, 1) = CourseLessons(1)
    /\ \E e \in enrollments :
          /\ e.user_id = resp.user /\ e.course_id = 1
          /\ e.progress = [n |-> 1, d |-> 1]
          /\ e.completed_at # NoTime

-----------------------------------------------------------------------------
(* Concurrent completions of two lessons of one course.                    *)

\* Two finished requests of one principal, each of which created the
\* completion of a different lesson of course c.
BothCompleted(i, j, c) ==
    /\ i # j
    /\ reqs[i].pc = "done" /\ reqs[j].pc = "done"
    /\ reqs[i].user = reqs[j].user
    /\ reqs[i].lesson # reqs[j].lesson
    /\ Created(i) /\ Created(j)
    /\ lessons[reqs[i].lesson].course_id = c
    /\ lessons[reqs[j].lesson].course_id = c

\* C25: when one principal's two requests (mark-complete or passing
\* attempt) for two different lessons of the same course have both
\* finished, in whatever interleaving of their steps, the enrollment's
\* progress_percentage counts both completions: it is the ratio of the
\* principal's completions to the lessons of the course.
C25_ConcurrentProgress ==
    \A i, j \in DOMAIN reqs :
        (Len(reqs) = 2 /\ BothCompleted(i, j, 1))
        => \A e \in enrollments :
              e.user_id = reqs[i].user /\ e.course_id = 1
              => IsPercentage(e.progress,
                              Cardinality(DoneLessons(e.user_id, 1)),
                              Cardinality(CourseLessons(1)))

=============================================================================
